---- MODULE Spec2Model ----
(***************************************************************************)
(* Real-time presence and message delivery core of the chat backend:       *)
(* the connection registry (app/core/websocket.py), the duplex-channel      *)
(* endpoint (app/api/v1/endpoints/websocket.py) and the HTTP handlers that  *)
(* fan events out through it (messages.py, friends.py, conversations.py).   *)
(*                                                                         *)
(* The server is a single asyncio event loop: code between two awaits runs  *)
(* atomically, and any other coroutine may run at an await.  Every action   *)
(* below is one such atomic stretch of one coroutine; task[t].pc is the     *)
(* await the coroutine is suspended at.                                     *)
(***************************************************************************)
EXTENDS Integers, Sequences, FiniteSets, TLC

\* ---------------------------------------------------------------- bounds
MaxConns == 3       \* websocket connections ever opened
MaxReqs == 2        \* HTTP requests in flight at the same time
MaxMsgs == 2        \* messages ever inserted
MaxAcks == 2        \* receipt entries pushed on one list of one message
MaxTime == 2        \* last value of the clock
MaxRecords == 2     \* friendship records ever inserted
MaxInbox == 3       \* events on a connection beyond which it reads no more frames

UserSeq == <<"A", "B">>
Users == {UserSeq[i] : i \in 1..Len(UserSeq)}
NoUser == "none"
Conns == 1..MaxConns
Reqs == (MaxConns + 1)..(MaxConns + MaxReqs)
Tasks == Conns \cup Reqs

VARIABLES
    active_connections,  \* ConnectionManager.active_connections: dict user_id -> set of websockets
    connection_users,    \* ConnectionManager.connection_users: dict websocket -> user_id
    broken,              \* broken[c]: the transport of c is closed (send_json and receive_json raise)
    task,                \* task[t]: the coroutine of connection t (endpoint) or request slot t (HTTP)
    inbox,               \* inbox[c]: the events written to c, in order
    users_online,        \* db.users[u].status.online
    friendships,         \* db.friendships, in insertion order
    conversations,       \* db.conversations, in insertion order (index = _id)
    messages,            \* db.messages, in insertion order (index = _id)
    now,                 \* datetime.utcnow()
    live,                \* history: connections registered by connect and not yet passed to disconnect
    offTransitions,      \* history: per user, times the user's last connection was removed
    offRounds,           \* history: per user, calls of notify_contacts_status(user, False)
    bcast,               \* history: per message, its new_message broadcast and the connections
                         \*          registered from its start on
    fetched,             \* history: what the last get_messages call returned
    reply,               \* history: per user, the last response of an HTTP handler to the user
    watch                \* which history variables this specification records

vars == <<active_connections, connection_users, broken, task, inbox, users_online,
          friendships, conversations, messages, now, live, offTransitions, offRounds,
          bcast, fetched, reply, watch>>

\* ------------------------------------------------------- small utilities
EmptyDict == [x \in {} |-> 0]
DictDel(f, k) == [x \in DOMAIN f \ {k} |-> f[x]]
DictPut(f, k, v) == [x \in DOMAIN f \cup {k} |-> IF x = k THEN v ELSE f[x]]
SetMin(S) == CHOOSE x \in S : \A y \in S : x <= y

NoEvent == [type |-> "none", msg |-> 0, user |-> NoUser]
Event(t, m, u) == [type |-> t, msg |-> m, user |-> u]

\* An HTTP response: the handler, its caller, the id it was about (for
\* create_or_get_conversation the rank of the other participant), the status
\* code and the id it returns (0: none).
NoReply == [op |-> "", user |-> NoUser, arg |-> 0, code |-> 0, val |-> 0]
Response(op, u, arg, code, val) == [op |-> op, user |-> u, arg |-> arg, code |-> code, val |-> val]

\* The token of a connection attempt: whether jwt.decode accepts it
\* (signature and expiry) and the user_id of its payload (NoUser: none).
Tokens == [sig_ok : BOOLEAN, user_id : Users \cup {NoUser}]
NoToken == [sig_ok |-> FALSE, user_id |-> "-"]

\* metadata of a message that is not ephemeral: no expires_at key.
NoExpiry == -1
NoMeta == [is_ephemeral |-> FALSE, ttl_seconds |-> 0, expires_at |-> NoExpiry]

IdleTask ==
    [pc |-> "idle", op |-> "", user |-> NoUser, peer |-> NoUser, arg |-> 0, snap |-> 0,
     token |-> NoToken, sending |-> 0, meta |-> NoMeta, note |-> "",
     ev |-> NoEvent, rcpts |-> <<>>, iter |-> FALSE, n0 |-> 0, visited |-> {},
     mutated |-> FALSE, stale |-> FALSE, disc |-> {}, ret |-> "", onerr |-> ""]
NewWsTask == [IdleTask EXCEPT !.pc = "new", !.op = "ws"]

\* ------------------------------------------------------------- registry
\* disconnect, lines 69-70: the user's key is deleted when its set is empty.
PruneEmpty_Never(ac, uid) == ac
PruneEmpty(ac, uid) == IF ac[uid] = {} THEN DictDel(ac, uid) ELSE ac

\* (connect without the assignment of line 40)
Register_NoUserMap(reg, c, u) ==
    LET ac0 == IF u \notin DOMAIN reg.ac THEN DictPut(reg.ac, u, {}) ELSE reg.ac
    IN [ac |-> DictPut(ac0, u, ac0[u] \cup {c}), cu |-> reg.cu]

\* connect, lines 36-40 (after the await of accept(), up to the next await).
Register(reg, c, u) ==
    LET ac0 == IF u \notin DOMAIN reg.ac THEN DictPut(reg.ac, u, {}) ELSE reg.ac
    IN [ac |-> DictPut(ac0, u, ac0[u] \cup {c}), cu |-> DictPut(reg.cu, c, u)]

\* (disconnect without the discard of line 66)
Disconnect_NoDiscard(reg, c) ==
    [ac |-> reg.ac,
     cu |-> IF c \in DOMAIN reg.cu THEN DictDel(reg.cu, c) ELSE reg.cu]

\* disconnect: synchronous, so atomic.
Disconnect(reg, c) ==
    LET uid == IF c \in DOMAIN reg.cu THEN reg.cu[c] ELSE NoUser
        ac1 == IF uid # NoUser /\ uid \in DOMAIN reg.ac
               THEN PruneEmpty(DictPut(reg.ac, uid, reg.ac[uid] \ {c}), uid)
               ELSE reg.ac
        cu1 == IF c \in DOMAIN reg.cu THEN DictDel(reg.cu, c) ELSE reg.cu
    IN [ac |-> ac1, cu |-> cu1]

\* send_to_user, lines 109-110: disconnect every connection whose send failed.
RECURSIVE DisconnectAll(_, _)
DisconnectAll(reg, S) ==
    IF S = {} THEN reg
    ELSE LET c == SetMin(S) IN DisconnectAll(Disconnect(reg, c), S \ {c})

is_user_online(ac, u) == u \in DOMAIN ac /\ Cardinality(ac[u]) > 0

Reg == [ac |-> active_connections, cu |-> connection_users]

\* active_connections.get(user_id, set()), line 157.
ConnSetOf(u) == IF u \in DOMAIN active_connections THEN active_connections[u] ELSE {}

\* ------------------------------------------- iteration over a live set
\* send_to_user iterates over the set object active_connections[user_id]
\* itself and awaits inside the loop, so the set can change under the
\* iterator.  CPython's set iterator raises RuntimeError at the next step
\* when the size differs from the size at its creation; when the size is the
\* same although the set changed (a discard and an add), the table may have
\* been rebuilt, and the iterator goes on from its old index: members may be
\* skipped or yielded again.  A set whose key was deleted is a different
\* object from the set a later connect creates: it stays empty for ever.
\* Touch records, for every iterator in progress, what the change of the
\* registry from acOld to acNew did to the set it iterates over.
Touch(tk, acOld, acNew) ==
    [t \in Tasks |->
        IF tk[t].iter /\ ~tk[t].stale
        THEN LET u == Head(tk[t].rcpts) IN
             IF u \notin DOMAIN acNew
             THEN [tk[t] EXCEPT !.stale = TRUE, !.visited = {}]
             ELSE IF acNew[u] # acOld[u]
                  THEN [tk[t] EXCEPT !.mutated = TRUE, !.visited = {}]
                  ELSE tk[t]
        ELSE tk[t]]

\* The members of the set object the iterator of t runs over.
IterSet(t) == IF task[t].stale THEN {} ELSE active_connections[Head(task[t].rcpts)]
IterSizeChanged(t) == Cardinality(IterSet(t)) # task[t].n0

\* send_to_user line 98 inside broadcast_to_conversation's loop: recipients
\* without a key are passed over without any await.
RECURSIVE SkipOffline(_, _)
SkipOffline(rcpts, ac) ==
    IF rcpts = <<>> THEN <<>>
    ELSE IF Head(rcpts) \in DOMAIN ac THEN rcpts
         ELSE SkipOffline(Tail(rcpts), ac)

Registered(ac) == UNION {ac[u] : u \in DOMAIN ac}

\* Every change of the registry goes through Commit: the two maps, the
\* iterators in progress, and the history variables.
Commit(reg2, tk2, added, removed) ==
    /\ active_connections' = reg2.ac
    /\ connection_users' = reg2.cu
    /\ task' = Touch(tk2, active_connections, reg2.ac)
    /\ live' = IF "presence" \in watch THEN (live \cup added) \ removed ELSE live
    /\ offTransitions' =
          [u \in Users |->
              IF /\ "presence" \in watch
                 /\ u \in DOMAIN active_connections /\ u \notin DOMAIN reg2.ac
              THEN offTransitions[u] + 1 ELSE offTransitions[u]]
    /\ bcast' =
          [m \in DOMAIN bcast |->
              IF bcast[m].st = "running"
              THEN [bcast[m] EXCEPT !.stay = @ \cap Registered(reg2.ac)]
              ELSE bcast[m]]
    /\ UNCHANGED watch

NoRegistryChange ==
    UNCHANGED <<active_connections, connection_users, live, offTransitions, watch>>

\* The broadcast of a send_message task (or, where the specification
\* follows those, of a delete_message task) is over, with res; any other
\* task leaves the history of the broadcasts alone.
BcastOver(t, res) ==
    IF \/ task[t].op = "send_message" /\ "bcast" \in watch
       \/ task[t].op = "delete_message" /\ "delcast" \in watch
       \/ task[t].op \in {"typing_start", "typing_stop"} /\ "typing" \in watch
    THEN [bcast EXCEPT ![task[t].ev.msg].st = res]
    ELSE bcast

\* The status code of a handler that returns: 201 where its route says so
\* (messages.py line 45, conversations.py line 42, friends.py line 44).
SuccessCode(op) ==
    IF op \in {"send_message", "create_conversation", "friend_request"} THEN 201 ELSE 200

\* The response of a handler is recorded where the specification watches it.
Respond(rec) == IF "reply" \in watch THEN [reply EXCEPT ![rec.user] = rec] ELSE reply

\* websocket.send_json(ev) on c: written to c, or an exception when the
\* transport is broken.
SendFails(c) == broken[c]
Deliver(c, ev) == IF SendFails(c) THEN inbox ELSE [inbox EXCEPT ![c] = Append(@, ev)]

\* The state of a server that has just started, over an empty database.
InitServer ==
    /\ active_connections = EmptyDict
    /\ connection_users = EmptyDict
    /\ broken = [c \in Conns |-> FALSE]
    /\ task = [t \in Tasks |-> IF t \in Conns THEN NewWsTask ELSE IdleTask]
    /\ inbox = [c \in Conns |-> <<>>]
    /\ users_online = [u \in Users |-> FALSE]
    /\ friendships = <<>>
    /\ conversations = <<>>
    /\ messages = <<>>
    /\ now = 0
    /\ live = {}
    /\ offTransitions = [u \in Users |-> 0]
    /\ offRounds = [u \in Users |-> 0]
    /\ bcast = [m \in 1..MaxMsgs |-> [st |-> "none", stay |-> {}]]
    /\ fetched = [by |-> NoUser, msgs |-> <<>>]
    /\ reply = [u \in Users |-> NoReply]

Init == InitServer /\ watch = {}
InitReg == InitServer /\ watch = {"presence"}
InitFan == InitServer /\ watch = {"bcast"}

dbVars == <<users_online, friendships, conversations, messages, now>>

\* The fan-out fields of a task record, cleared.
ClearFanout(tr) ==
    [tr EXCEPT !.ev = NoEvent, !.rcpts = <<>>, !.iter = FALSE, !.n0 = 0, !.visited = {},
               !.sending = 0,
               !.mutated = FALSE, !.stale = FALSE, !.disc = {}, !.ret = "", !.onerr = ""]

\* A task starts a fan-out of ev to the recipients rcpts, and goes on at ret
\* when it is over; onerr says who catches an exception that leaves it.
StartFanout(tr, ev, rcpts, ret, onerr) ==
    [ClearFanout(tr) EXCEPT !.pc = "fanout", !.ev = ev, !.rcpts = rcpts, !.ret = ret,
                            !.onerr = onerr]

\* The task after its fan-out: an HTTP handler returns its response and the
\* slot is free again; a connection's coroutine goes on at ret.
AfterFanout(tr) ==
    IF tr.ret = "idle" THEN IdleTask
    ELSE IF tr.ret = "recv" THEN [ClearFanout(tr) EXCEPT !.pc = "recv", !.op = "ws", !.arg = 0]
    ELSE [ClearFanout(tr) EXCEPT !.pc = tr.ret]

\* ---------------------------------------------- send_to_user / broadcast
\* The connection in whose send_json a coroutine is suspended (line 101),
\* kept where the specification follows it (0: none).
Sending(c) == IF "sending" \in watch THEN c ELSE 0

\* send_to_user lines 98-103: the iterator is created and yields its first
\* connection; the coroutine is then suspended in send_json.
FanoutBegin(t) ==
    /\ task[t].pc = "fanout" /\ ~task[t].iter
    /\ LET rest == SkipOffline(task[t].rcpts, active_connections) IN
       /\ rest # <<>>
       /\ \E c \in active_connections[Head(rest)] :
            /\ inbox' = Deliver(c, task[t].ev)
            /\ task' = [task EXCEPT ![t] =
                  [@ EXCEPT !.rcpts = rest, !.iter = TRUE,
                            !.n0 = Cardinality(active_connections[Head(rest)]),
                            !.visited = {c}, !.mutated = FALSE, !.stale = FALSE,
                            !.sending = Sending(c),
                            !.disc = IF SendFails(c) THEN {c} ELSE {}]]
    /\ NoRegistryChange
    /\ UNCHANGED <<broken, dbVars, offRounds, fetched, reply>>
    /\ UNCHANGED bcast

\* send_to_user lines 101-106: the previous send_json is over, the iterator
\* yields the next connection.
FanoutSend(t) ==
    /\ task[t].pc = "fanout" /\ task[t].iter
    /\ ~IterSizeChanged(t)
    /\ \E c \in IterSet(t) \ task[t].visited :
         /\ inbox' = Deliver(c, task[t].ev)
         /\ task' = [task EXCEPT ![t] =
               [@ EXCEPT !.visited = @ \cup {c}, !.sending = Sending(c),
                         !.disc = IF SendFails(c) THEN @ \cup {c} ELSE @]]
    /\ NoRegistryChange
    /\ UNCHANGED <<broken, dbVars, offRounds, fetched, reply>>
    /\ UNCHANGED bcast

\* send_to_user lines 101, 108-110: the iterator is exhausted (or, after a
\* change of the set that kept its size, stops early); the connections whose
\* send failed are disconnected; broadcast_to_conversation goes to the next
\* recipient.
FanoutEndUser(t) ==
    /\ task[t].pc = "fanout" /\ task[t].iter
    /\ ~IterSizeChanged(t)
    /\ IterSet(t) \ task[t].visited = {} \/ task[t].mutated
    /\ Commit(DisconnectAll(Reg, task[t].disc),
              [task EXCEPT ![t] =
                  [@ EXCEPT !.rcpts = Tail(@), !.iter = FALSE, !.n0 = 0, !.visited = {},
                            !.sending = 0,
                            !.mutated = FALSE, !.stale = FALSE, !.disc = {}]],
              {}, task[t].disc)
    /\ UNCHANGED <<broken, inbox, dbVars, offRounds, fetched, reply>>

\* broadcast_to_conversation line 122 / send_to_user line 98: no recipient
\* with a key is left; the caller goes on.
FanoutReturn(t) ==
    /\ task[t].pc = "fanout" /\ ~task[t].iter
    /\ SkipOffline(task[t].rcpts, active_connections) = <<>>
    /\ task' = [task EXCEPT ![t] = AfterFanout(@)]
    /\ NoRegistryChange
    /\ UNCHANGED <<broken, inbox, dbVars, offRounds, fetched>>
    /\ reply' = IF task[t].ret = "idle"
                THEN Respond(Response(task[t].op, task[t].user, task[t].arg,
                                      SuccessCode(task[t].op), task[t].snap))
                ELSE reply
    /\ bcast' = BcastOver(t, "ok")

\* websocket_endpoint lines 123-129: the finally block up to its first
\* await: disconnect, then is_user_online.
FinallySync(c, tk) ==
    LET reg2 == Disconnect(Reg, c)
        u == task[c].user
    IN Commit(reg2,
              [tk EXCEPT ![c] =
                  [ClearFanout(@) EXCEPT
                      !.op = "ws", !.arg = 0,
                      !.pc = IF is_user_online(reg2.ac, u) THEN "closed" ELSE "fin_db"]],
              {}, {c})

\* send_to_user line 101: "Set changed size during iteration".  Nothing in
\* send_to_user or broadcast_to_conversation catches it: the cleanup of lines
\* 109-110 is skipped and the exception reaches the caller.
FanoutRaise(t) ==
    /\ task[t].pc = "fanout" /\ task[t].iter
    /\ IterSizeChanged(t)
    /\ CASE task[t].onerr = "ws_finally" ->
              FinallySync(t, task) /\ UNCHANGED reply
         [] task[t].onerr = "swallow" ->
              /\ task' = [task EXCEPT ![t] = AfterFanout(@)]
              /\ NoRegistryChange
              /\ UNCHANGED <<bcast, reply>>
         [] OTHER ->
              /\ task' = [task EXCEPT ![t] = IdleTask]
              /\ NoRegistryChange
              /\ bcast' = BcastOver(t, "failed")
              /\ reply' = Respond(Response(task[t].op, task[t].user, task[t].arg, 500,
                                           task[t].snap))
    /\ UNCHANGED <<broken, inbox, dbVars, offRounds, fetched>>

\* ------------------------------------------------- websocket_endpoint
\* users documents are written by the signup handler, which stores no
\* "friends" field, and no handler adds one.
UserDocFriends(u) == [present |-> FALSE, list |-> <<>>]

\* notify_contacts_status lines 300-308: the friends to notify.
NotifyTargets(u) ==
    IF ~UserDocFriends(u).present THEN <<>> ELSE UserDocFriends(u).list

\* notify_contacts_status lines 296-325: it returns at once when the user
\* document has no friends to notify, and sends to each online friend
\* otherwise; it catches every exception.
\* Where the specification follows the calls, the handler keeps the kind of
\* its last call in note.
NotifyContacts(tr, ev, ret) ==
    LET called == [tr EXCEPT !.note = IF "notify" \in watch THEN ev.type ELSE @] IN
    IF NotifyTargets(ev.user) = <<>>
    THEN [ClearFanout(called) EXCEPT !.pc = ret]
    ELSE StartFanout(called, ev, NotifyTargets(ev.user), ret, "swallow")

\* websocket_endpoint lines 45-56 with connect lines 34-54: the token is
\* valid, accept() has returned, the connection is registered and the
\* authenticated event is written.  Connection objects are interchangeable:
\* the next one opened is the least unused.
WsConnect(c, u) ==
    /\ task[c].pc = "new"
    /\ c = SetMin({x \in Conns : task[x].pc = "new"})
    /\ Commit(Register(Reg, c, u),
              [task EXCEPT ![c] = [@ EXCEPT !.pc = "set_online", !.user = u]],
              {c}, {})
    /\ inbox' = Deliver(c, Event("authenticated", 0, u))
    /\ UNCHANGED <<broken, dbVars, offRounds, fetched, reply>>

\* (a decoder that does not verify the token)
AuthUser_Trusting(tok) == tok.user_id
\* decode_access_token (core/security.py lines 56-64) and
\* payload.get("user_id"), websocket_endpoint lines 45-53: the user the
\* token authenticates (NoUser: the handler closes the channel).
AuthUser(tok) == IF tok.sig_ok THEN tok.user_id ELSE NoUser

\* websocket.close(code=status.WS_1008_POLICY_VIOLATION)
WS_1008_POLICY_VIOLATION == 1008

\* websocket_endpoint lines 44-56, with the token presented: the channel is
\* closed with the policy-violation code and the handler returns, or
\* manager.connect runs as in WsConnect.
WsOpen(c, tok) ==
    /\ task[c].pc = "new"
    /\ c = SetMin({x \in Conns : task[x].pc = "new"})
    /\ IF AuthUser(tok) = NoUser
       THEN /\ task' = [task EXCEPT ![c] =
                  [@ EXCEPT !.pc = "closed", !.token = tok,
                            !.snap = WS_1008_POLICY_VIOLATION]]
            /\ NoRegistryChange
            /\ UNCHANGED <<inbox, bcast>>
       ELSE /\ Commit(Register(Reg, c, AuthUser(tok)),
                      [task EXCEPT ![c] = [@ EXCEPT !.pc = "set_online", !.token = tok,
                                                    !.user = AuthUser(tok)]],
                      {c}, {})
            /\ inbox' = Deliver(c, Event("authenticated", 0, AuthUser(tok)))
    /\ UNCHANGED <<broken, dbVars, offRounds, fetched, reply>>

\* websocket_endpoint lines 59-75: status.online = True is written, then
\* notify_contacts_status(user_id, True) is called (the awaits of the cache
\* write and of the lookup of the user document touch no modelled state).
WsSetOnline(c) ==
    /\ task[c].pc = "set_online"
    /\ users_online' = [users_online EXCEPT ![task[c].user] = TRUE]
    /\ task' = [task EXCEPT ![c] =
          NotifyContacts(@, Event("user_online", 0, task[c].user), "recv")]
    /\ NoRegistryChange
    /\ UNCHANGED <<broken, inbox, friendships, conversations, messages, now, offRounds, fetched, reply>>
    /\ UNCHANGED bcast

\* (a reply that is never written)
SendPersonal_Drop(c, ev) == inbox
\* send_personal_message, core/websocket.py lines 77-88: send_json on the one
\* connection; an exception is logged and swallowed.
SendPersonal(c, ev) == Deliver(c, ev)

\* websocket_endpoint lines 80-115, a frame that is a ping or carries a type
\* the loop does not know (or none): receive_json returns it and the
\* handler awaits send_personal_message with pong or error.
WsFrame(c, known) ==
    /\ task[c].pc = "recv" /\ ~broken[c]
    /\ Len(inbox[c]) < MaxInbox
    /\ task' = [task EXCEPT ![c] =
          [@ EXCEPT !.pc = "reply_frame",
                    !.ev = Event(IF known THEN "pong" ELSE "error", 0, task[c].user)]]
    /\ NoRegistryChange
    /\ UNCHANGED <<broken, inbox, dbVars, offRounds, bcast, fetched, reply>>

\* The reply is written (or its failure swallowed) and the loop goes back
\* to receive_json, line 80.
WsFrameReply(c) ==
    /\ task[c].pc = "reply_frame"
    /\ inbox' = SendPersonal(c, task[c].ev)
    /\ task' = [task EXCEPT ![c] = [@ EXCEPT !.pc = "recv", !.ev = NoEvent]]
    /\ NoRegistryChange
    /\ UNCHANGED <<broken, dbVars, offRounds, bcast, fetched, reply>>

\* The client closes the channel, or the network drops it.
WsBreak(c) ==
    /\ task[c].pc \notin {"new", "closed"}
    /\ ~broken[c]
    /\ broken' = [broken EXCEPT ![c] = TRUE]
    /\ NoRegistryChange
    /\ UNCHANGED <<task, inbox, dbVars, offRounds, fetched, reply>>
    /\ UNCHANGED bcast

\* websocket_endpoint lines 80, 117-129: receive_json raises
\* WebSocketDisconnect, the finally block runs.
WsDisconnect(c) ==
    /\ task[c].pc = "recv"
    /\ broken[c]
    /\ FinallySync(c, task)
    /\ UNCHANGED <<broken, inbox, dbVars, offRounds, fetched, reply>>

\* websocket_endpoint lines 131-145: status.online = False is written, then
\* notify_contacts_status(user_id, False) is called.
WsSetOffline(c) ==
    /\ task[c].pc = "fin_db"
    /\ users_online' = [users_online EXCEPT ![task[c].user] = FALSE]
    /\ offRounds' = IF "presence" \in watch
                    THEN [offRounds EXCEPT ![task[c].user] = @ + 1] ELSE offRounds
    /\ task' = [task EXCEPT ![c] =
          NotifyContacts(@, Event("user_offline", 0, task[c].user), "closed")]
    /\ NoRegistryChange
    /\ UNCHANGED <<broken, inbox, friendships, conversations, messages, now, fetched, reply>>
    /\ UNCHANGED bcast

\* websocket_endpoint lines 59-68, update_one raises (the database cannot
\* be reached): the write is before the try of line 77, so the exception
\* leaves the handler; neither notify_contacts_status, nor the receive loop,
\* nor the finally block runs, and the server closes the channel of the
\* handler that raised.
WsSetOnlineFails(c) ==
    /\ task[c].pc = "set_online"
    /\ task' = [task EXCEPT ![c] = [@ EXCEPT !.pc = "raised"]]
    /\ broken' = [broken EXCEPT ![c] = TRUE]
    /\ NoRegistryChange
    /\ UNCHANGED <<inbox, dbVars, offRounds, bcast, fetched, reply>>

\* websocket_endpoint lines 131-139, update_one raises inside the finally
\* block: the exception leaves the handler before notify_contacts_status
\* (line 145).
WsSetOfflineFails(c) ==
    /\ task[c].pc = "fin_db"
    /\ task' = [task EXCEPT ![c] = [@ EXCEPT !.pc = "raised"]]
    /\ broken' = [broken EXCEPT ![c] = TRUE]
    /\ NoRegistryChange
    /\ UNCHANGED <<inbox, dbVars, offRounds, bcast, fetched, reply>>

\* ------------------------------------------------------------ friends.py
Rank(u) == CHOOSE i \in 1..Len(UserSeq) : UserSeq[i] = u
\* find_one with the $or filter of send_friend_request lines 75-80: the
\* first record between u and v, in either direction (0: none).  A record
\* removed by delete_one keeps its position with status "deleted", so that
\* the _id of a record is its position for good.
Between(i, u, v) ==
    /\ friendships[i].status # "deleted"
    /\ \/ friendships[i].requester_id = u /\ friendships[i].addressee_id = v
       \/ friendships[i].requester_id = v /\ friendships[i].addressee_id = u

FindFriendship(u, v) ==
    LET hits == {i \in 1..Len(friendships) : Between(i, u, v)}
    IN IF hits = {} THEN 0 ELSE SetMin(hits)

\* The unique index on (requester_id, addressee_id), database.py line 47.
DuplicateKey(u, v) ==
    \E i \in 1..Len(friendships) :
        /\ friendships[i].status # "deleted"
        /\ friendships[i].requester_id = u /\ friendships[i].addressee_id = v

\* update_one by _id: a record deleted in the meantime matches nothing.
SetRecord(i, st, by) ==
    IF friendships[i].status = "deleted" THEN friendships
    ELSE [friendships EXCEPT ![i].status = st, ![i].blocked_by = by]

\* (a resend that stores the request as a new document)
Reopen_Insert(i) == Append(friendships, [friendships[i] EXCEPT !.status = "pending"])
\* send_friend_request lines 108-118: the record found is set to pending.
Reopen(i) == SetRecord(i, "pending", friendships[i].blocked_by)

\* Handlers that have looked for a record, found none and will insert one.
InsertsPending ==
    Cardinality({r \in Reqs : task[r].pc \in {"fr_write", "bl_write"} /\ task[r].arg = 0})

\* HTTP handlers run in the free request slots, which are interchangeable.
FreeSlot(r) ==
    /\ task[r].pc = "idle"
    /\ r = SetMin({x \in Reqs : task[x].pc = "idle"})

\* The status of the errors of send_friend_request, lines 68-104.
RequestError(u, v, i) ==
    IF u = v THEN 400
    ELSE IF friendships[i].status = "blocked" THEN 403
    ELSE IF friendships[i].status = "accepted" THEN 409
    ELSE IF friendships[i].requester_id = u THEN 409
    ELSE 400

\* send_friend_request lines 57-106: up to the await of the write.  A request
\* to oneself, or over a blocked, accepted or pending record, is answered
\* with an error and changes nothing.
FrFind(r, u, v) ==
    /\ FreeSlot(r)
    /\ FindFriendship(u, v) = 0 => Len(friendships) + InsertsPending < MaxRecords
    /\ LET i == FindFriendship(u, v) IN
       IF u = v \/ (i # 0 /\ friendships[i].status \in {"blocked", "accepted", "pending"})
       THEN /\ UNCHANGED task
            /\ reply' = Respond(Response("friend_request", u, Rank(v),
                                         RequestError(u, v, i), 0))
       ELSE /\ task' = [task EXCEPT ![r] =
                  [IdleTask EXCEPT !.pc = "fr_write", !.op = "friend_request",
                                   !.user = u, !.peer = v, !.arg = i]]
            /\ UNCHANGED reply
    /\ NoRegistryChange
    /\ UNCHANGED <<broken, inbox, dbVars, offRounds, fetched>>
    /\ UNCHANGED bcast

\* send_friend_request lines 108-140: the rejected record is set back to
\* pending, or a new pending record is inserted; then notify_friend_request
\* (lines 468-489) sends friend_request_received to the addressee.
FrWrite(r) ==
    /\ task[r].pc = "fr_write"
    /\ LET u == task[r].user
           v == task[r].peer
           i == task[r].arg
       IN IF i # 0
          THEN /\ friendships' = Reopen(i)
               /\ task' = [task EXCEPT ![r] =
                     StartFanout([@ EXCEPT !.arg = Rank(v)],
                                 Event("friend_request_received", i, u), <<v>>,
                                 "idle", "http500")]
               /\ UNCHANGED reply
          ELSE IF DuplicateKey(u, v)
               THEN /\ task' = [task EXCEPT ![r] = IdleTask]
                    /\ reply' = Respond(Response("friend_request", u, Rank(v), 500, 0))
                    /\ UNCHANGED friendships
               ELSE /\ friendships' = Append(friendships,
                          [requester_id |-> u, addressee_id |-> v, status |-> "pending",
                           blocked_by |-> NoUser])
                    /\ task' = [task EXCEPT ![r] =
                          StartFanout([@ EXCEPT !.arg = Rank(v)],
                                      Event("friend_request_received",
                                            Len(friendships) + 1, u), <<v>>,
                                      "idle", "http500")]
                    /\ UNCHANGED reply
    /\ NoRegistryChange
    /\ UNCHANGED <<broken, inbox, users_online, conversations, messages, now, offRounds, fetched>>
    /\ UNCHANGED bcast

\* respond_to_friend_request lines 227-256: the record is read by _id; 404,
\* 403 unless the caller is the addressee, 400 unless it is pending.
RrFind(r, u, i, accept) ==
    /\ FreeSlot(r)
    /\ IF i \notin 1..Len(friendships) \/ friendships[i].status = "deleted"
       THEN /\ UNCHANGED task
            /\ reply' = Respond(Response("respond", u, i, 404, 0))
       ELSE IF friendships[i].addressee_id # u
       THEN /\ UNCHANGED task
            /\ reply' = Respond(Response("respond", u, i, 403, 0))
       ELSE IF friendships[i].status # "pending"
       THEN /\ UNCHANGED task
            /\ reply' = Respond(Response("respond", u, i, 400, 0))
       ELSE /\ task' = [task EXCEPT ![r] =
                  [IdleTask EXCEPT !.pc = "rr_write", !.op = "respond", !.user = u,
                                   !.peer = friendships[i].requester_id, !.arg = i,
                                   !.snap = IF accept THEN 1 ELSE 0]]
            /\ UNCHANGED reply
    /\ NoRegistryChange
    /\ UNCHANGED <<broken, inbox, dbVars, offRounds, bcast, fetched>>

\* respond_to_friend_request lines 258-287: the status is written; an
\* acceptance is sent to the requester with send_to_user.
RrWrite(r) ==
    /\ task[r].pc = "rr_write"
    /\ LET i == task[r].arg IN
       /\ friendships' = SetRecord(i, IF task[r].snap = 1 THEN "accepted" ELSE "rejected",
                                    friendships[i].blocked_by)
       /\ IF task[r].snap = 1
          THEN /\ task' = [task EXCEPT ![r] =
                     StartFanout(@, Event("friend_request_accepted", i, task[r].user),
                                 <<task[r].peer>>, "idle", "http500")]
               /\ UNCHANGED reply
          ELSE /\ task' = [task EXCEPT ![r] = IdleTask]
               /\ reply' = Respond(Response("respond", task[r].user, i, 200, 0))
    /\ NoRegistryChange
    /\ UNCHANGED <<broken, inbox, users_online, conversations, messages, now, offRounds,
                   bcast, fetched>>

\* block_user lines 357-379: 400 for oneself; the record between the two
\* users is looked up.
BlockFind(r, u, v) ==
    /\ FreeSlot(r)
    /\ FindFriendship(u, v) = 0 => Len(friendships) + InsertsPending < MaxRecords
    /\ IF u = v
       THEN /\ UNCHANGED task
            /\ reply' = Respond(Response("block_user", u, Rank(v), 400, 0))
       ELSE /\ task' = [task EXCEPT ![r] =
                  [IdleTask EXCEPT !.pc = "bl_write", !.op = "block_user", !.user = u,
                                   !.peer = v, !.arg = FindFriendship(u, v)]]
            /\ UNCHANGED reply
    /\ NoRegistryChange
    /\ UNCHANGED <<broken, inbox, dbVars, offRounds, bcast, fetched>>

\* block_user lines 381-405: the record found becomes blocked with
\* blocked_by the caller, whoever had set it; without one a blocked record
\* is inserted (the unique index refuses a second one of the same direction).
BlockWrite(r) ==
    /\ task[r].pc = "bl_write"
    /\ LET u == task[r].user
           v == task[r].peer
           i == task[r].arg
       IN IF i # 0
          THEN /\ friendships' = SetRecord(i, "blocked", u)
               /\ reply' = Respond(Response("block_user", u, Rank(v), 200, 0))
          ELSE IF DuplicateKey(u, v)
          THEN /\ UNCHANGED friendships
               /\ reply' = Respond(Response("block_user", u, Rank(v), 500, 0))
          ELSE /\ friendships' = Append(friendships,
                     [requester_id |-> u, addressee_id |-> v, status |-> "blocked",
                      blocked_by |-> u])
               /\ reply' = Respond(Response("block_user", u, Rank(v), 200, 0))
    /\ task' = [task EXCEPT ![r] = IdleTask]
    /\ NoRegistryChange
    /\ UNCHANGED <<broken, inbox, users_online, conversations, messages, now, offRounds,
                   bcast, fetched>>

\* find_one of unblock_user lines 422-428: the first blocked record between
\* u and v whose blocked_by is u (0: none).
FindBlock(u, v) ==
    LET hits == {i \in 1..Len(friendships) :
                    /\ Between(i, u, v)
                    /\ friendships[i].status = "blocked"
                    /\ friendships[i].blocked_by = u}
    IN IF hits = {} THEN 0 ELSE SetMin(hits)

\* unblock_user lines 419-434: 404 without a block set by the caller.
UnblockFind(r, u, v) ==
    /\ FreeSlot(r)
    /\ IF FindBlock(u, v) = 0
       THEN /\ UNCHANGED task
            /\ reply' = Respond(Response("unblock_user", u, Rank(v), 404, 0))
       ELSE /\ task' = [task EXCEPT ![r] =
                  [IdleTask EXCEPT !.pc = "ub_delete", !.op = "unblock_user", !.user = u,
                                   !.peer = v, !.arg = FindBlock(u, v)]]
            /\ UNCHANGED reply
    /\ NoRegistryChange
    /\ UNCHANGED <<broken, inbox, dbVars, offRounds, bcast, fetched>>

\* unblock_user lines 436-439: delete_one by _id.
UnblockDelete(r) ==
    /\ task[r].pc = "ub_delete"
    /\ friendships' = [friendships EXCEPT ![task[r].arg].status = "deleted"]
    /\ reply' = Respond(Response("unblock_user", task[r].user, Rank(task[r].peer), 200, 0))
    /\ task' = [task EXCEPT ![r] = IdleTask]
    /\ NoRegistryChange
    /\ UNCHANGED <<broken, inbox, users_online, conversations, messages, now, offRounds,
                   bcast, fetched>>

\* ------------------------------------------------------ conversations.py
\* sorted([current_user_id, data.participant_id]), line 64.
SortedPair(u, v) == IF Rank(u) <= Rank(v) THEN <<u, v>> ELSE <<v, u>>

\* find_one of lines 66-69: the first one_to_one conversation of the pair (0: none).
FindConversation(pair) ==
    LET hits == {i \in 1..Len(conversations) : conversations[i].participant_ids = pair}
    IN IF hits = {} THEN 0 ELSE SetMin(hits)

\* create_or_get_conversation lines 53-73: the existing conversation is
\* returned, or the handler goes on to insert one.  Nothing compares the
\* participant with the caller: a conversation with oneself is created too.
ConvFind(r, u, v) ==
    /\ FreeSlot(r)
    /\ IF FindConversation(SortedPair(u, v)) # 0
       THEN /\ UNCHANGED task
            /\ reply' = Respond(Response("create_conversation", u, Rank(v), 201,
                                         FindConversation(SortedPair(u, v))))
       ELSE /\ task' = [task EXCEPT ![r] =
                  [IdleTask EXCEPT !.pc = "cv_insert", !.op = "create_conversation",
                                   !.user = u, !.peer = v]]
            /\ UNCHANGED reply
    /\ NoRegistryChange
    /\ UNCHANGED <<broken, inbox, dbVars, offRounds, bcast, fetched>>

\* create_or_get_conversation lines 76-106: the conversation is inserted.
\* last_read_at = -1 and last_message.message_id = 0 stand for None.
ConvInsert(r) ==
    /\ task[r].pc = "cv_insert"
    /\ conversations' = Append(conversations,
          [participant_ids |-> SortedPair(task[r].user, task[r].peer),
           last_message |-> [message_id |-> 0, timestamp |-> 0, sender_id |-> NoUser],
           last_read_at |-> [u \in {task[r].user, task[r].peer} |-> -1]])
    /\ task' = [task EXCEPT ![r] = IdleTask]
    /\ reply' = Respond(Response("create_conversation", task[r].user, Rank(task[r].peer), 201,
                                 Len(conversations) + 1))
    /\ NoRegistryChange
    /\ UNCHANGED <<broken, inbox, users_online, friendships, messages, now, offRounds,
                   bcast, fetched>>

\* ----------------------------------------------------------- messages.py
SeqToSet(q) == {q[i] : i \in 1..Len(q)}

\* (a participant check that lets everybody pass)
IsParticipant_Any(u, cid) == TRUE
\* send_message line 74: current_user_id in conversation["participant_ids"].
IsParticipant(u, cid) == u \in SeqToSet(conversations[cid].participant_ids)

\* send_message lines 82-95: the metadata of the message; expires_at is set
\* only if is_ephemeral and ttl_seconds are both truthy (ttl_seconds = 0
\* stands for 0 and for None).
Metadata(is_ephemeral, ttl_seconds) ==
    [is_ephemeral |-> is_ephemeral, ttl_seconds |-> ttl_seconds,
     expires_at |-> IF is_ephemeral /\ ttl_seconds # 0 THEN now + ttl_seconds
                    ELSE NoExpiry]

\* send_message tasks that have not inserted their message yet.
SendsPending == Cardinality({t \in Reqs : task[t].pc = "sm_insert"})

\* send_message lines 57-115: the conversation is looked up, the sender must
\* be a participant (404 and 403 change nothing), the message document is
\* built with created_at = utcnow(); the handler awaits the insert.  The
\* request body is taken to carry every attribute the handler reads
\* (line 100 reads data.content, which models/message.py does not declare).
SmFindTtl(r, u, cid, is_ephemeral, ttl_seconds) ==
    /\ FreeSlot(r)
    /\ Len(messages) + SendsPending < MaxMsgs
    /\ IF cid \notin 1..Len(conversations)
       THEN /\ UNCHANGED task
            /\ reply' = Respond(Response("send_message", u, cid, 404, 0))
       ELSE IF ~IsParticipant(u, cid)
       THEN /\ UNCHANGED task
            /\ reply' = Respond(Response("send_message", u, cid, 403, 0))
       ELSE /\ task' = [task EXCEPT ![r] =
                  [IdleTask EXCEPT !.pc = "sm_insert", !.op = "send_message",
                                   !.user = u, !.arg = cid, !.snap = now,
                                   !.meta = Metadata(is_ephemeral, ttl_seconds)]]
            /\ UNCHANGED reply
    /\ NoRegistryChange
    /\ UNCHANGED <<broken, inbox, dbVars, offRounds, bcast, fetched>>

\* A message that is not ephemeral (the defaults of MessageCreate).
SmFind(r, u, cid) == SmFindTtl(r, u, cid, FALSE, 0)

\* (an insert that is acknowledged and not stored)
PersistMessage_Lost(msgs, m) == msgs
\* insert_one, line 117.
PersistMessage(msgs, m) == Append(msgs, m)

\* send_message lines 117-118: the insert commits; _id is the position in
\* the collection.
SmInsert(r) ==
    /\ task[r].pc = "sm_insert"
    /\ messages' = PersistMessage(messages,
          [conversation_id |-> task[r].arg, sender_id |-> task[r].user,
           created_at |-> task[r].snap, read_by |-> <<>>, delivered_to |-> <<>>,
           deleted_for |-> <<>>, deleted_for_everyone |-> FALSE,
           metadata |-> task[r].meta])
    /\ task' = [task EXCEPT ![r] = [@ EXCEPT !.pc = "sm_update", !.snap = Len(messages) + 1]]
    /\ NoRegistryChange
    /\ UNCHANGED <<broken, inbox, users_online, friendships, conversations, now, offRounds,
                   bcast, fetched, reply>>

\* send_message lines 121-147: last_message of the conversation is set, then
\* new_message is broadcast to conversation["participant_ids"], the sender
\* included.
SmUpdateConv(r) ==
    /\ task[r].pc = "sm_update"
    /\ LET cid == task[r].arg
           mid == task[r].snap
       IN /\ conversations' = [conversations EXCEPT ![cid].last_message =
                 [message_id |-> mid, timestamp |-> now, sender_id |-> task[r].user]]
          /\ task' = [task EXCEPT ![r] =
                StartFanout(@, Event("new_message", mid, task[r].user),
                            conversations[cid].participant_ids, "idle", "http500")]
          /\ bcast' = IF "bcast" \in watch
                       THEN [bcast EXCEPT ![mid] =
                               [st |-> "running",
                                stay |-> UNION {ConnSetOf(p) :
                                   p \in SeqToSet(conversations[cid].participant_ids)}]]
                       ELSE bcast
    /\ NoRegistryChange
    /\ UNCHANGED <<broken, inbox, users_online, friendships, messages, now, offRounds,
                   fetched, reply>>

\* --------------------------------------------- receipts (both channels)
Receipt(u) == [user_id |-> u, at |-> now]
ReceiptUsers(list) == {list[i].user_id : i \in 1..Len(list)}

\* (a write that replaces the document by a fresh one with the new receipt)
PushReceipt_Replace(msgs, m, field, u) ==
    IF m \notin 1..Len(msgs) THEN msgs
    ELSE [msgs EXCEPT ![m].deleted_for_everyone = FALSE,
                      ![m].read_by = IF field = "read" THEN Append(@, Receipt(u)) ELSE @,
                      ![m].delivered_to =
                          IF field = "read" THEN @ ELSE Append(@, Receipt(u))]

\* update_one with $push on status.read_by or status.delivered_to: the entry
\* is appended, whatever the list holds; no document matches an unknown _id.
PushReceipt(msgs, m, field, u) ==
    IF m \notin 1..Len(msgs) THEN msgs
    ELSE IF field = "read" THEN [msgs EXCEPT ![m].read_by = Append(@, Receipt(u))]
    ELSE [msgs EXCEPT ![m].delivered_to = Append(@, Receipt(u))]

\* The receipts of one kind on message m (none on an unknown _id).
ReceiptList(m, field) ==
    IF m \notin 1..Len(messages) THEN <<>>
    ELSE IF field = "read" THEN messages[m].read_by ELSE messages[m].delivered_to

\* websocket_endpoint lines 80-98 with handle_message_read lines 255-273 or
\* handle_message_delivered lines 214-232: a message_read or
\* message_delivered frame arrives on c and the $push commits.
WsAckFrame(c, field, m) ==
    /\ task[c].pc = "recv" /\ ~broken[c]
    /\ Len(ReceiptList(m, field)) < MaxAcks
    /\ messages' = PushReceipt(messages, m, field, task[c].user)
    /\ task' = [task EXCEPT ![c] =
          [@ EXCEPT !.pc = "ack_find", !.arg = m,
                    !.op = IF field = "read" THEN "message_read" ELSE "message_delivered"]]
    /\ NoRegistryChange
    /\ UNCHANGED <<broken, inbox, users_online, friendships, conversations, now, offRounds,
                   bcast, fetched, reply>>

\* handle_message_read lines 276-291, handle_message_delivered lines
\* 235-250: the message is read back and its sender is sent
\* message_status_update, also when the sender is the user of the frame.
WsAckNotify(c) ==
    /\ task[c].pc = "ack_find"
    /\ LET m == task[c].arg
           kind == IF task[c].op = "message_read" THEN "read" ELSE "delivered"
       IN task' = [task EXCEPT ![c] =
             IF m \in 1..Len(messages)
             THEN StartFanout(@, Event("message_status_update/" \o kind, m, task[c].user),
                              <<messages[m].sender_id>>, "recv", "ws_finally")
             ELSE [@ EXCEPT !.pc = "recv", !.op = "ws", !.arg = 0]]
    /\ NoRegistryChange
    /\ UNCHANGED <<broken, inbox, dbVars, offRounds, bcast, fetched, reply>>

\* broadcast_to_conversation lines 122-124: the participants without the
\* excluded user, in the order of the list.
ExcludeUser(ids, u) == SelectSeq(ids, LAMBDA p : p # u)

\* websocket_endpoint lines 80-92 with handle_typing_start / handle_typing_stop
\* lines 148-209: a typing frame arrives on c, the conversation is looked
\* up (nothing happens when it does not exist) and typing_indicator is
\* broadcast to its participants without the user of the frame.  The
\* history keeps, under the id of the conversation, the connections of the
\* recipients that stay registered.
WsTyping(c, cid, is_typing) ==
    /\ task[c].pc = "recv" /\ ~broken[c]
    /\ IF cid \notin 1..Len(conversations)
       THEN UNCHANGED <<task, bcast>>
       ELSE LET u == task[c].user
                to == ExcludeUser(conversations[cid].participant_ids, u) IN
            /\ task' = [task EXCEPT ![c] =
                  StartFanout([@ EXCEPT !.arg = cid,
                                        !.op = IF is_typing THEN "typing_start"
                                               ELSE "typing_stop"],
                              Event(IF is_typing THEN "typing_indicator/true"
                                    ELSE "typing_indicator/false", cid, u),
                              to, "recv", "ws_finally")]
            /\ bcast' = IF "typing" \in watch /\ cid \in DOMAIN bcast
                         THEN [bcast EXCEPT ![cid] =
                                 [st |-> "running",
                                  stay |-> UNION {ConnSetOf(p) : p \in SeqToSet(to)}]]
                         ELSE bcast
    /\ NoRegistryChange
    /\ UNCHANGED <<broken, inbox, dbVars, offRounds, fetched, reply>>

\* mark_message_read lines 246-261: the message is looked up (404 changes
\* nothing) and already_read is computed from the document that was read.
MrFind(r, u, m) ==
    /\ FreeSlot(r)
    /\ Len(ReceiptList(m, "read")) < MaxAcks
    /\ IF m \notin 1..Len(messages)
       THEN /\ UNCHANGED task
            /\ reply' = Respond(Response("mark_message_read", u, m, 404, 0))
       ELSE /\ task' = [task EXCEPT ![r] =
                  [IdleTask EXCEPT !.op = "mark_message_read", !.user = u, !.arg = m,
                                   !.pc = IF u \in ReceiptUsers(messages[m].read_by)
                                          THEN "mr_conv" ELSE "mr_push"]]
            /\ UNCHANGED reply
    /\ NoRegistryChange
    /\ UNCHANGED <<broken, inbox, dbVars, offRounds, bcast, fetched>>

\* mark_message_read lines 263-290: the $push commits, and the sender is
\* sent message_status_update unless the sender is the reader.
MrPush(r) ==
    /\ task[r].pc = "mr_push"
    /\ LET m == task[r].arg
           u == task[r].user
       IN /\ messages' = PushReceipt(messages, m, "read", u)
          /\ task' = [task EXCEPT ![r] =
                IF messages[m].sender_id # u
                THEN StartFanout(@, Event("message_status_update/read", m, u),
                                 <<messages[m].sender_id>>, "mr_conv", "http500")
                ELSE [@ EXCEPT !.pc = "mr_conv"]]
    /\ NoRegistryChange
    /\ UNCHANGED <<broken, inbox, users_online, friendships, conversations, now, offRounds,
                   bcast, fetched, reply>>

\* mark_message_read lines 293-305: last_read_at of the reader's participant
\* entry is set (the filter matches no entry of a user who is no participant).
MrConv(r) ==
    /\ task[r].pc = "mr_conv"
    /\ LET cid == messages[task[r].arg].conversation_id
           u == task[r].user
       IN conversations' =
             IF u \in DOMAIN conversations[cid].last_read_at
             THEN [conversations EXCEPT ![cid].last_read_at[u] = now]
             ELSE conversations
    /\ task' = [task EXCEPT ![r] = IdleTask]
    /\ reply' = Respond(Response("mark_message_read", task[r].user, task[r].arg, 200, 0))
    /\ NoRegistryChange
    /\ UNCHANGED <<broken, inbox, users_online, friendships, messages, now, offRounds,
                   bcast, fetched>>

\* ------------------------------------------- format_conversation_response
\* format_conversation_response lines 235-252: zero without a participant
\* entry or without last_message; else the count of the messages of other
\* senders newer than last_read_at (all of them when it is None), if
\* last_message is newer than last_read_at or last_read_at is None.
unread_count(cid, u) ==
    LET conv == conversations[cid] IN
    IF u \notin DOMAIN conv.last_read_at \/ conv.last_message.message_id = 0 THEN 0
    ELSE LET lr == conv.last_read_at[u] IN
         IF lr = -1 \/ conv.last_message.timestamp > lr
         THEN Cardinality({m \in 1..Len(messages) :
                              /\ messages[m].conversation_id = cid
                              /\ messages[m].sender_id # u
                              /\ (lr = -1 \/ messages[m].created_at > lr)})
         ELSE 0

\* get_conversation lines 148-177: 404 and 403, or the formatted
\* conversation (the reads of the conversation and of the count are taken
\* at one moment).
GetConversation(r, u, cid) ==
    /\ FreeSlot(r)
    /\ reply' = Respond(
          IF cid \notin 1..Len(conversations)
          THEN Response("get_conversation", u, cid, 404, 0)
          ELSE IF ~IsParticipant(u, cid)
          THEN Response("get_conversation", u, cid, 403, 0)
          ELSE Response("get_conversation", u, cid, 200, unread_count(cid, u)))
    /\ NoRegistryChange
    /\ UNCHANGED <<broken, inbox, task, dbVars, offRounds, bcast, fetched>>

\* -------------------------------------------------------- delete_message
\* timedelta(hours=1), line 346; the clock counts hours.
DeleteWindow == 1

\* (a sender check that lets everybody pass)
NotSender_Never(u, m) == FALSE
\* delete_message line 338: the caller is not the sender of the message.
NotSender(u, m) == messages[m].sender_id # u

\* delete_message lines 322-350: the message is looked up; 404, 403 (not the
\* sender) and 400 (older than the window) change nothing.
DelFind(r, u, m, everyone) ==
    /\ FreeSlot(r)
    /\ IF m \notin 1..Len(messages)
       THEN /\ UNCHANGED task
            /\ reply' = Respond(Response("delete_message", u, m, 404, 0))
       ELSE IF everyone /\ NotSender(u, m)
       THEN /\ UNCHANGED task
            /\ reply' = Respond(Response("delete_message", u, m, 403, 0))
       ELSE IF everyone /\ now - messages[m].created_at > DeleteWindow
       THEN /\ UNCHANGED task
            /\ reply' = Respond(Response("delete_message", u, m, 400, 0))
       ELSE /\ task' = [task EXCEPT ![r] =
                  [IdleTask EXCEPT !.op = "delete_message", !.user = u, !.arg = m,
                                   !.pc = IF everyone THEN "del_set" ELSE "del_me"]]
            /\ UNCHANGED reply
    /\ NoRegistryChange
    /\ UNCHANGED <<broken, inbox, dbVars, offRounds, bcast, fetched>>

\* delete_message lines 353-378: deleted_for_everyone is set, the
\* conversation is looked up and message_deleted is broadcast to its
\* participants.
DelSet(r) ==
    /\ task[r].pc = "del_set"
    /\ LET m == task[r].arg IN
       /\ messages' = [messages EXCEPT ![m].deleted_for_everyone = TRUE]
       /\ task' = [task EXCEPT ![r] =
             StartFanout(@, Event("message_deleted", m, task[r].user),
                         conversations[messages[m].conversation_id].participant_ids,
                         "idle", "http500")]
       /\ bcast' = IF "delcast" \in watch
                    THEN [bcast EXCEPT ![m] =
                            [st |-> "running",
                             stay |-> UNION {ConnSetOf(p) : p \in SeqToSet(
                                conversations[messages[m].conversation_id].participant_ids)}]]
                    ELSE bcast
    /\ NoRegistryChange
    /\ UNCHANGED <<broken, inbox, users_online, friendships, conversations, now, offRounds,
                   fetched, reply>>

\* (a $push: the value is appended whatever the array holds)
AddToSet_Push(list, x) == Append(list, x)
\* $addToSet, line 385: the value is appended unless the array holds it.
AddToSet(list, x) == IF x \in SeqToSet(list) THEN list ELSE Append(list, x)

\* delete_message lines 380-389: $addToSet of the user on deleted_for.
DelMe(r) ==
    /\ task[r].pc = "del_me"
    /\ messages' = [messages EXCEPT ![task[r].arg].deleted_for = AddToSet(@, task[r].user)]
    /\ task' = [task EXCEPT ![r] = IdleTask]
    /\ reply' = Respond(Response("delete_message", task[r].user, task[r].arg, 200, 0))
    /\ NoRegistryChange
    /\ UNCHANGED <<broken, inbox, users_online, friendships, conversations, now, offRounds,
                   bcast, fetched>>

\* ---------------------------------------------------------- get_messages
NoMsg == 0       \* no "before" parameter
NoTime == -1     \* no "since" parameter

\* get_messages lines 190-211: the filter.  "since" replaces the created_at
\* condition that "before" has set.
MatchesQuery(m, u, cid, before, since) ==
    /\ messages[m].conversation_id = cid
    /\ u \notin SeqToSet(messages[m].deleted_for)
    /\ IF since # NoTime THEN messages[m].created_at > since
       ELSE IF before \in 1..Len(messages)
            THEN messages[m].created_at < messages[before].created_at
            ELSE TRUE

Min(a, b) == IF a < b THEN a ELSE b

\* find(query).sort("created_at", -1).limit(limit), line 214: the pages the
\* database may return (messages of equal created_at come in any order).
Pages(u, cid, limit, before, since) ==
    LET hits == {m \in 1..Len(messages) : MatchesQuery(m, u, cid, before, since)}
        n == Min(limit, Cardinality(hits))
    IN {q \in [1..n -> hits] :
           /\ \A i \in 1..n, j \in 1..n : i < j =>
                 /\ q[i] # q[j]
                 /\ messages[q[i]].created_at >= messages[q[j]].created_at
           /\ \A m \in hits \ {q[i] : i \in 1..n} : \A i \in 1..n :
                 messages[q[i]].created_at >= messages[m].created_at}

\* format_message_response lines 392-405, as far as the claims look at it:
\* the ciphertext is always part of the response.
format_message_response(m) ==
    [id |-> m, encrypted_content |-> TRUE,
     is_deleted |-> messages[m].deleted_for_everyone]

\* get_messages lines 152-230: 404 and 403 return nothing; the page is read
\* by one find (the documents it uses from earlier reads never change).
GetMessages(r, u, cid, limit, before, since) ==
    /\ FreeSlot(r)
    /\ "fetch" \in watch
    /\ cid \in 1..Len(conversations)
    /\ u \in SeqToSet(conversations[cid].participant_ids)
    /\ \E q \in Pages(u, cid, limit, before, since) :
          fetched' = [by |-> u,
                      msgs |-> [i \in 1..Len(q) |-> format_message_response(q[i])]]
    /\ NoRegistryChange
    /\ UNCHANGED <<broken, inbox, task, dbVars, offRounds, bcast, reply>>

\* Time passes.
Tick ==
    /\ now < MaxTime
    /\ now' = now + 1
    /\ NoRegistryChange
    /\ UNCHANGED <<broken, inbox, task, users_online, friendships, conversations, messages,
                   offRounds, bcast, fetched, reply>>

\* ------------------------------------------------------ specifications
FanoutNext ==
    \/ \E t \in Tasks : FanoutBegin(t)
    \/ \E t \in Tasks : FanoutSend(t)
    \/ \E t \in Tasks : FanoutEndUser(t)
    \/ \E t \in Tasks : FanoutReturn(t)
    \/ \E t \in Tasks : FanoutRaise(t)

WsNext ==
    \/ \E c \in Conns, u \in Users : WsConnect(c, u)
    \/ \E c \in Conns : WsSetOnline(c)
    \/ \E c \in Conns : WsBreak(c)
    \/ \E c \in Conns : WsDisconnect(c)
    \/ \E c \in Conns : WsSetOffline(c)

NoRequestInFlight == \A r \in Reqs : task[r].pc = "idle"
FrFindAlone(r, u, v) == NoRequestInFlight /\ FrFind(r, u, v)
\* (one create call at a time, between two different users)
ConvFindAlone(r, u, v) == NoRequestInFlight /\ u # v /\ ConvFind(r, u, v)

\* The registry under connections opening and closing and under the
\* fan-outs of friend requests, one request at a time.
NextReg ==
    \/ WsNext
    \/ FanoutNext
    \/ \E r \in Reqs, u \in Users, v \in Users : FrFindAlone(r, u, v)
    \/ \E r \in Reqs : FrWrite(r)

SpecReg == InitReg /\ [][NextReg]_vars

SmFindFirst(r, u, cid) == NoRequestInFlight /\ messages = <<>> /\ SmFind(r, u, cid)
WsConnectOne(c, u) == c = 1 /\ WsConnect(c, u)
\* (two connections)
WsConnectPair(c, u) == c <= 2 /\ WsConnect(c, u)

\* One conversation, every connection, and the first send_message request
\* to it: the fan-out of one event under connections opening and closing.
NextFan ==
    \/ WsNext
    \/ FanoutNext
    \/ \E r \in Reqs, u \in Users, v \in Users : ConvFindAlone(r, u, v)
    \/ \E r \in Reqs : ConvInsert(r)
    \/ \E r \in Reqs, u \in Users, cid \in 1..MaxReqs : SmFindFirst(r, u, cid)
    \/ \E r \in Reqs : SmInsert(r)
    \/ \E r \in Reqs : SmUpdateConv(r)

SpecFan == InitFan /\ [][NextFan]_vars

\* One conversation and one connection that opens and closes, under
\* concurrent send_message requests.
NextMsg ==
    \/ \E c \in Conns, u \in Users : WsConnectOne(c, u)
    \/ \E c \in Conns : WsSetOnline(c)
    \/ \E c \in Conns : WsBreak(c)
    \/ \E c \in Conns : WsDisconnect(c)
    \/ \E c \in Conns : WsSetOffline(c)
    \/ \E t \in Tasks : FanoutBegin(t)
    \/ \E t \in Tasks : FanoutEndUser(t)
    \/ \E t \in Tasks : FanoutReturn(t)
    \/ \E t \in Tasks : FanoutRaise(t)
    \/ \E r \in Reqs, u \in Users, v \in Users : ConvFindAlone(r, u, v)
    \/ \E r \in Reqs : ConvInsert(r)
    \/ \E r \in Reqs, u \in Users, cid \in 1..MaxReqs : SmFind(r, u, cid)
    \/ \E r \in Reqs : SmInsert(r)
    \/ \E r \in Reqs : SmUpdateConv(r)

SpecMsg == Init /\ [][NextMsg]_vars

\* The same, with the responses of the requests recorded.
InitSend == InitServer /\ watch = {"reply"}
SpecSend == InitSend /\ [][NextMsg]_vars

\* The same, with the send_json each coroutine is suspended in.
InitSerial == InitServer /\ watch = {"sending"}
SpecSerial == InitSerial /\ [][NextMsg]_vars

MrFindAlone(r, u, m) == NoRequestInFlight /\ MrFind(r, u, m)
\* (a message is deleted for everyone once: every repetition broadcasts
\* message_deleted again)
DelFindAlone(r, u, m, everyone) ==
    /\ NoRequestInFlight
    /\ ~(everyone /\ m \in 1..Len(messages) /\ messages[m].deleted_for_everyone)
    /\ DelFind(r, u, m, everyone)

\* One conversation, its first message and one connection under receipts
\* from both channels.  With a single connection no iteration of
\* send_to_user has a second step or sees its set change.
NextAck ==
    \/ \E c \in Conns, u \in Users : WsConnectOne(c, u)
    \/ \E c \in Conns : WsSetOnline(c)
    \/ \E t \in Tasks : FanoutBegin(t)
    \/ \E t \in Tasks : FanoutEndUser(t)
    \/ \E t \in Tasks : FanoutReturn(t)
    \/ \E r \in Reqs, u \in Users, v \in Users : ConvFindAlone(r, u, v)
    \/ \E r \in Reqs : ConvInsert(r)
    \/ \E r \in Reqs, u \in Users, cid \in 1..MaxReqs : SmFindFirst(r, u, cid)
    \/ \E r \in Reqs : SmInsert(r)
    \/ \E r \in Reqs : SmUpdateConv(r)
    \/ \E c \in Conns, field \in {"read", "delivered"}, m \in 1..MaxMsgs :
          WsAckFrame(c, field, m)
    \/ \E c \in Conns : WsAckNotify(c)
    \/ \E r \in Reqs, u \in Users, m \in 1..MaxMsgs : MrFindAlone(r, u, m)
    \/ \E r \in Reqs : MrPush(r)
    \/ \E r \in Reqs : MrConv(r)

SpecAck == Init /\ [][NextAck]_vars

InitScen == InitServer /\ watch = {"reply"}

\* (the first read of a stored message, by a user other than its sender)
MrFindOnce(r, u, m) ==
    /\ NoRequestInFlight
    /\ m \in 1..Len(messages) /\ messages[m].sender_id # u /\ messages[m].read_by = <<>>
    /\ MrFind(r, u, m)

\* (the devices of the first user connect; the first user sends)
WsConnectSender(c) == WsConnect(c, UserSeq[1])
SmFindSender(r, cid) == SmFindFirst(r, UserSeq[1], cid)

\* One conversation and its first message, sent by the first user and read
\* over HTTP, while the sender's connections open and close.
NextScen ==
    \/ \E c \in Conns : WsConnectSender(c)
    \/ \E c \in Conns : WsSetOnline(c)
    \/ \E c \in Conns : WsBreak(c)
    \/ \E c \in Conns : WsDisconnect(c)
    \/ \E c \in Conns : WsSetOffline(c)
    \/ FanoutNext
    \/ \E r \in Reqs, u \in Users, v \in Users : ConvFindAlone(r, u, v)
    \/ \E r \in Reqs : ConvInsert(r)
    \/ \E r \in Reqs, cid \in 1..MaxReqs : SmFindSender(r, cid)
    \/ \E r \in Reqs : SmInsert(r)
    \/ \E r \in Reqs : SmUpdateConv(r)
    \/ \E r \in Reqs, u \in Users, m \in 1..MaxMsgs : MrFindOnce(r, u, m)
    \/ \E r \in Reqs : MrPush(r)
    \/ \E r \in Reqs : MrConv(r)

SpecScen == InitScen /\ [][NextScen]_vars

InitUnread == InitServer /\ watch = {"reply"}

\* Conversations read while messages are sent and marked read and the
\* clock advances; nobody is connected.
NextUnread ==
    \/ \E r \in Reqs, u \in Users, v \in Users : ConvFindAlone(r, u, v)
    \/ \E r \in Reqs : ConvInsert(r)
    \/ \E r \in Reqs, u \in Users, cid \in 1..MaxReqs : SmFind(r, u, cid)
    \/ \E r \in Reqs : SmInsert(r)
    \/ \E r \in Reqs : SmUpdateConv(r)
    \/ \E t \in Tasks : FanoutReturn(t)
    \/ \E r \in Reqs, u \in Users, m \in 1..MaxMsgs : MrFindAlone(r, u, m)
    \/ \E r \in Reqs : MrPush(r)
    \/ \E r \in Reqs : MrConv(r)
    \/ \E r \in Reqs, u \in Users, cid \in 1..MaxReqs : GetConversation(r, u, cid)
    \/ Tick

SpecUnread == InitUnread /\ [][NextUnread]_vars

InitFriends == InitServer /\ watch = {"reply"}

\* Friend requests, answers, blocks and unblocks of two users, two
\* requests at a time; nobody is connected.
NextFriends ==
    \/ \E r \in Reqs, u \in Users, v \in Users : FrFind(r, u, v)
    \/ \E r \in Reqs : FrWrite(r)
    \/ \E r \in Reqs, u \in Users, i \in 1..MaxRecords, accept \in BOOLEAN :
          RrFind(r, u, i, accept)
    \/ \E r \in Reqs : RrWrite(r)
    \/ \E r \in Reqs, u \in Users, v \in Users : BlockFind(r, u, v)
    \/ \E r \in Reqs : BlockWrite(r)
    \/ \E r \in Reqs, u \in Users, v \in Users : UnblockFind(r, u, v)
    \/ \E r \in Reqs : UnblockDelete(r)
    \/ \E t \in Tasks : FanoutReturn(t)

SpecFriends == InitFriends /\ [][NextFriends]_vars

RrFindAlone(r, u, i, accept) == NoRequestInFlight /\ RrFind(r, u, i, accept)
BlockFindAlone(r, u, v) == NoRequestInFlight /\ BlockFind(r, u, v)
UnblockFindAlone(r, u, v) == NoRequestInFlight /\ UnblockFind(r, u, v)

InitBlock == InitServer /\ watch = {"reply"}

\* The same operations, one request at a time.
NextBlock ==
    \/ \E r \in Reqs, u \in Users, v \in Users : FrFindAlone(r, u, v)
    \/ \E r \in Reqs : FrWrite(r)
    \/ \E r \in Reqs, u \in Users, i \in 1..MaxRecords, accept \in BOOLEAN :
          RrFindAlone(r, u, i, accept)
    \/ \E r \in Reqs : RrWrite(r)
    \/ \E r \in Reqs, u \in Users, v \in Users : BlockFindAlone(r, u, v)
    \/ \E r \in Reqs : BlockWrite(r)
    \/ \E r \in Reqs, u \in Users, v \in Users : UnblockFindAlone(r, u, v)
    \/ \E r \in Reqs : UnblockDelete(r)
    \/ \E t \in Tasks : FanoutReturn(t)

SpecBlock == InitBlock /\ [][NextBlock]_vars

\* Two connections that open, read pings and frames of unknown type, and
\* close, under the fan-outs of friend requests.
NextFrame ==
    \/ \E c \in Conns, u \in Users : WsConnectPair(c, u)
    \/ \E c \in Conns : WsSetOnline(c)
    \/ \E c \in Conns : WsBreak(c)
    \/ \E c \in Conns : WsDisconnect(c)
    \/ \E c \in Conns : WsSetOffline(c)
    \/ \E c \in Conns, known \in BOOLEAN : WsFrame(c, known)
    \/ \E c \in Conns : WsFrameReply(c)
    \/ FanoutNext
    \/ \E r \in Reqs, u \in Users, v \in Users : FrFindAlone(r, u, v)
    \/ \E r \in Reqs : FrWrite(r)

SpecFrame == Init /\ [][NextFrame]_vars

\* Connection attempts with any token, and the life of the connections
\* that are accepted.
NextAuth ==
    \/ \E c \in Conns, tok \in Tokens : WsOpen(c, tok)
    \/ \E c \in Conns : WsSetOnline(c)
    \/ \E c \in Conns : WsBreak(c)
    \/ \E c \in Conns : WsDisconnect(c)
    \/ \E c \in Conns : WsSetOffline(c)

SpecAuth == InitReg /\ [][NextAuth]_vars

\* Connections of two users opening and closing; the history follows the
\* calls of notify_contacts_status.
InitNotify == InitServer /\ watch = {"notify"}
SpecNotify == InitNotify /\ [][WsNext]_vars

\* (requests are accepted: a rejected one can be sent again without end)
RrAcceptAlone(r, u, i) == RrFindAlone(r, u, i, TRUE)

\* Connections opening and closing between users who send and accept
\* friend requests, one request at a time.
NextPresence ==
    \/ \E c \in Conns, u \in Users : WsConnectPair(c, u)
    \/ \E c \in Conns : WsSetOnline(c)
    \/ \E c \in Conns : WsBreak(c)
    \/ \E c \in Conns : WsDisconnect(c)
    \/ \E c \in Conns : WsSetOffline(c)
    \/ FanoutNext
    \/ \E r \in Reqs, u \in Users, v \in Users : FrFindAlone(r, u, v)
    \/ \E r \in Reqs : FrWrite(r)
    \/ \E r \in Reqs, u \in Users, i \in 1..MaxRecords : RrAcceptAlone(r, u, i)
    \/ \E r \in Reqs : RrWrite(r)

SpecPresence == Init /\ [][NextPresence]_vars

\* The steps of connection handlers whose presence writes may fail, under
\* the fan-outs of friend requests.
NextCrash ==
    \/ \E c \in Conns, u \in Users : WsConnectPair(c, u)
    \/ \E c \in Conns : WsSetOnline(c)
    \/ \E c \in Conns : WsSetOnlineFails(c)
    \/ \E c \in Conns : WsBreak(c)
    \/ \E c \in Conns : WsDisconnect(c)
    \/ \E c \in Conns : WsSetOffline(c)
    \/ \E c \in Conns : WsSetOfflineFails(c)
    \/ FanoutNext
    \/ \E r \in Reqs, u \in Users, v \in Users : FrFindAlone(r, u, v)
    \/ \E r \in Reqs : FrWrite(r)

SpecCrash == Init /\ [][NextCrash]_vars

\* The event loop runs every coroutine that can go on: the step a handler
\* is waiting to take is taken.  Clients are free to open connections, to
\* drop them and to send requests, or not to.
HandlerStep(t) ==
    \/ t \in Conns /\ (WsSetOnline(t) \/ WsSetOnlineFails(t) \/ WsDisconnect(t)
                      \/ WsSetOffline(t) \/ WsSetOfflineFails(t))
    \/ t \in Reqs /\ FrWrite(t)
    \/ FanoutBegin(t) \/ FanoutSend(t) \/ FanoutEndUser(t) \/ FanoutReturn(t)
    \/ FanoutRaise(t)

SpecLive == Init /\ [][NextCrash]_vars /\ \A t \in Tasks : WF_vars(HandlerStep(t))

InitConv == InitServer /\ watch = {"reply"}

\* Concurrent create_or_get_conversation requests, and the first message
\* of a conversation.
NextConv ==
    \/ \E r \in Reqs, u \in Users, v \in Users : ConvFind(r, u, v)
    \/ \E r \in Reqs : ConvInsert(r)
    \/ \E r \in Reqs, u \in Users, cid \in 1..MaxReqs : SmFindFirst(r, u, cid)
    \/ \E r \in Reqs : SmInsert(r)
    \/ \E r \in Reqs : SmUpdateConv(r)
    \/ \E t \in Tasks : FanoutReturn(t)

SpecConv == InitConv /\ [][NextConv]_vars

InitDel == InitServer /\ watch = {"reply"}

\* One conversation, its first message and one connection under deletions
\* by both users and the clock.
NextDel ==
    \/ \E c \in Conns, u \in Users : WsConnectOne(c, u)
    \/ \E c \in Conns : WsSetOnline(c)
    \/ \E t \in Tasks : FanoutBegin(t)
    \/ \E t \in Tasks : FanoutEndUser(t)
    \/ \E t \in Tasks : FanoutReturn(t)
    \/ \E r \in Reqs, u \in Users, v \in Users : ConvFindAlone(r, u, v)
    \/ \E r \in Reqs : ConvInsert(r)
    \/ \E r \in Reqs, u \in Users, cid \in 1..MaxReqs : SmFindFirst(r, u, cid)
    \/ \E r \in Reqs : SmInsert(r)
    \/ \E r \in Reqs : SmUpdateConv(r)
    \/ \E r \in Reqs, u \in Users, m \in 1..MaxMsgs, everyone \in BOOLEAN :
          DelFindAlone(r, u, m, everyone)
    \/ \E r \in Reqs : DelSet(r)
    \/ \E r \in Reqs : DelMe(r)
    \/ Tick

SpecDel == InitDel /\ [][NextDel]_vars

\* (the sender's delete-for-everyone requests)
DelEveryoneAlone(r, u, m) == DelFindAlone(r, u, m, TRUE)

\* The first message of one conversation is sent and deleted for everyone
\* while connections of both users open and close; the history follows the
\* message_deleted broadcast.
InitDelFan == InitServer /\ watch = {"delcast"}
NextDelFan ==
    \/ WsNext
    \/ FanoutNext
    \/ \E r \in Reqs, u \in Users, v \in Users : ConvFindAlone(r, u, v)
    \/ \E r \in Reqs : ConvInsert(r)
    \/ \E r \in Reqs, u \in Users, cid \in 1..MaxReqs : SmFindFirst(r, u, cid)
    \/ \E r \in Reqs : SmInsert(r)
    \/ \E r \in Reqs : SmUpdateConv(r)
    \/ \E r \in Reqs, u \in Users, m \in 1..MaxMsgs : DelEveryoneAlone(r, u, m)
    \/ \E r \in Reqs : DelSet(r)

SpecDelFan == InitDelFan /\ [][NextDelFan]_vars

\* (the second user holds the connection)
WsConnectReader(c) == WsConnectOne(c, UserSeq[2])

\* One conversation and one connection of the receiving user: the first
\* message is sent, acknowledged over both channels and deleted for everyone
\* or for one user.
NextStore ==
    \/ \E c \in Conns : WsConnectReader(c)
    \/ \E c \in Conns : WsSetOnline(c)
    \/ \E t \in Tasks : FanoutBegin(t)
    \/ \E t \in Tasks : FanoutEndUser(t)
    \/ \E t \in Tasks : FanoutReturn(t)
    \/ \E r \in Reqs, u \in Users, v \in Users : ConvFindAlone(r, u, v)
    \/ \E r \in Reqs : ConvInsert(r)
    \/ \E r \in Reqs, cid \in 1..MaxReqs : SmFindSender(r, cid)
    \/ \E r \in Reqs : SmInsert(r)
    \/ \E r \in Reqs : SmUpdateConv(r)
    \/ \E c \in Conns, field \in {"read", "delivered"}, m \in 1..MaxMsgs :
          WsAckFrame(c, field, m)
    \/ \E c \in Conns : WsAckNotify(c)
    \/ \E r \in Reqs, u \in Users, m \in 1..MaxMsgs : MrFindAlone(r, u, m)
    \/ \E r \in Reqs : MrPush(r)
    \/ \E r \in Reqs : MrConv(r)
    \/ \E r \in Reqs, u \in Users, m \in 1..MaxMsgs, everyone \in BOOLEAN :
          DelFindAlone(r, u, m, everyone)
    \/ \E r \in Reqs : DelSet(r)
    \/ \E r \in Reqs : DelMe(r)

SpecStore == Init /\ [][NextStore]_vars

\* create_or_get_conversation called with the caller's own id as
\* participant_id, no other request being in flight.
ConvFindSelf(r, u) == NoRequestInFlight /\ ConvFind(r, u, u)

\* delete_message with delete_for_everyone false.
DelFindMe(r, u, m) == DelFindAlone(r, u, m, FALSE)

\* Conversations of a user alone, one message of the first user, and every
\* user acknowledging it or deleting it for themselves, over HTTP and over
\* the socket.
NextOutsider ==
    \/ \E c \in Conns, u \in Users : WsConnectOne(c, u)
    \/ \E c \in Conns : WsSetOnline(c)
    \/ \E t \in Tasks : FanoutBegin(t)
    \/ \E t \in Tasks : FanoutEndUser(t)
    \/ \E t \in Tasks : FanoutReturn(t)
    \/ \E r \in Reqs, u \in Users : ConvFindSelf(r, u)
    \/ \E r \in Reqs : ConvInsert(r)
    \/ \E r \in Reqs, cid \in 1..MaxReqs : SmFindSender(r, cid)
    \/ \E r \in Reqs : SmInsert(r)
    \/ \E r \in Reqs : SmUpdateConv(r)
    \/ \E c \in Conns, field \in {"read", "delivered"}, m \in 1..MaxMsgs :
          WsAckFrame(c, field, m)
    \/ \E c \in Conns : WsAckNotify(c)
    \/ \E r \in Reqs, u \in Users, m \in 1..MaxMsgs : MrFindAlone(r, u, m)
    \/ \E r \in Reqs : MrPush(r)
    \/ \E r \in Reqs : MrConv(r)
    \/ \E r \in Reqs, u \in Users, m \in 1..MaxMsgs : DelFindMe(r, u, m)
    \/ \E r \in Reqs : DelMe(r)

SpecOutsider == Init /\ [][NextOutsider]_vars

InitRead == InitServer /\ watch = {"fetch"}

\* One conversation, its first message and one connection under deletions,
\* reads of the history and the clock.
NextRead ==
    \/ \E c \in Conns, u \in Users : WsConnectOne(c, u)
    \/ \E c \in Conns : WsSetOnline(c)
    \/ \E t \in Tasks : FanoutBegin(t)
    \/ \E t \in Tasks : FanoutEndUser(t)
    \/ \E t \in Tasks : FanoutReturn(t)
    \/ \E r \in Reqs, u \in Users, v \in Users : ConvFindAlone(r, u, v)
    \/ \E r \in Reqs : ConvInsert(r)
    \/ \E r \in Reqs, u \in Users, cid \in 1..MaxReqs : SmFindFirst(r, u, cid)
    \/ \E r \in Reqs : SmInsert(r)
    \/ \E r \in Reqs : SmUpdateConv(r)
    \/ \E r \in Reqs, u \in Users, m \in 1..MaxMsgs, everyone \in BOOLEAN :
          DelFindAlone(r, u, m, everyone)
    \/ \E r \in Reqs : DelSet(r)
    \/ \E r \in Reqs : DelMe(r)
    \/ \E r \in Reqs, u \in Users, cid \in 1..MaxReqs, limit \in 1..MaxMsgs,
          before \in NoMsg..MaxMsgs, since \in NoTime..MaxTime :
          GetMessages(r, u, cid, limit, before, since)
    \/ Tick

SpecRead == InitRead /\ [][NextRead]_vars

SmFindAlone(r, u, cid) == NoRequestInFlight /\ SmFind(r, u, cid)

\* (the whole history: the largest limit, neither "before" nor "since")
GetMessagesAll(r, u, cid) == GetMessages(r, u, cid, MaxMsgs, NoMsg, NoTime)

\* One conversation, its first message and one connection under deletions
\* by both users and reads of the whole history.
NextMine ==
    \/ \E c \in Conns, u \in Users : WsConnectOne(c, u)
    \/ \E c \in Conns : WsSetOnline(c)
    \/ \E t \in Tasks : FanoutBegin(t)
    \/ \E t \in Tasks : FanoutEndUser(t)
    \/ \E t \in Tasks : FanoutReturn(t)
    \/ \E r \in Reqs, u \in Users, v \in Users : ConvFindAlone(r, u, v)
    \/ \E r \in Reqs : ConvInsert(r)
    \/ \E r \in Reqs, u \in Users, cid \in 1..MaxReqs : SmFindFirst(r, u, cid)
    \/ \E r \in Reqs : SmInsert(r)
    \/ \E r \in Reqs : SmUpdateConv(r)
    \/ \E r \in Reqs, u \in Users, m \in 1..MaxMsgs, everyone \in BOOLEAN :
          DelFindAlone(r, u, m, everyone)
    \/ \E r \in Reqs : DelSet(r)
    \/ \E r \in Reqs : DelMe(r)
    \/ \E r \in Reqs, u \in Users, cid \in 1..MaxReqs : GetMessagesAll(r, u, cid)

SpecMine == InitRead /\ [][NextMine]_vars

\* (the first message of the database, with any metadata)
SmFindFirstTtl(r, u, cid, is_ephemeral, ttl_seconds) ==
    /\ NoRequestInFlight /\ messages = <<>>
    /\ SmFindTtl(r, u, cid, is_ephemeral, ttl_seconds)

\* One conversation and one connection: the first message is sent with or
\* without a time-to-live, the clock runs and both users read the history.
NextExpire ==
    \/ \E c \in Conns, u \in Users : WsConnectOne(c, u)
    \/ \E c \in Conns : WsSetOnline(c)
    \/ \E t \in Tasks : FanoutBegin(t)
    \/ \E t \in Tasks : FanoutEndUser(t)
    \/ \E t \in Tasks : FanoutReturn(t)
    \/ \E r \in Reqs, u \in Users, v \in Users : ConvFindAlone(r, u, v)
    \/ \E r \in Reqs : ConvInsert(r)
    \/ \E r \in Reqs, u \in Users, cid \in 1..MaxReqs, is_ephemeral \in BOOLEAN,
          ttl_seconds \in 0..MaxTime :
          SmFindFirstTtl(r, u, cid, is_ephemeral, ttl_seconds)
    \/ \E r \in Reqs : SmInsert(r)
    \/ \E r \in Reqs : SmUpdateConv(r)
    \/ \E r \in Reqs, u \in Users, cid \in 1..MaxReqs : GetMessagesAll(r, u, cid)
    \/ Tick

SpecExpire == InitRead /\ [][NextExpire]_vars

\* send_message lines 117-134, when update_one of line 121 raises (the
\* database is not reachable): the inserted message stays, last_message is
\* not written, nothing is broadcast and the request ends with 500.
SmUpdateConvFails(r) ==
    /\ task[r].pc = "sm_update"
    /\ task' = [task EXCEPT ![r] = IdleTask]
    /\ reply' = Respond(Response("send_message", task[r].user, task[r].arg, 500,
                                 task[r].snap))
    /\ NoRegistryChange
    /\ UNCHANGED <<broken, inbox, dbVars, offRounds, bcast, fetched>>

InitPartial == InitServer /\ watch = {"reply", "fetch"}

\* Messages are sent, one request at a time, and the last_message update of
\* a send may fail; both users read the conversations and the histories.
\* Nobody is connected.
NextPartial ==
    \/ \E r \in Reqs, u \in Users, v \in Users : ConvFindAlone(r, u, v)
    \/ \E r \in Reqs : ConvInsert(r)
    \/ \E r \in Reqs, u \in Users, cid \in 1..MaxReqs : SmFindAlone(r, u, cid)
    \/ \E r \in Reqs : SmInsert(r)
    \/ \E r \in Reqs : SmUpdateConv(r)
    \/ \E r \in Reqs : SmUpdateConvFails(r)
    \/ \E t \in Tasks : FanoutReturn(t)
    \/ \E r \in Reqs, u \in Users, cid \in 1..MaxReqs : GetConversation(r, u, cid)
    \/ \E r \in Reqs, u \in Users, cid \in 1..MaxReqs : GetMessagesAll(r, u, cid)
    \/ Tick

SpecPartial == InitPartial /\ [][NextPartial]_vars

\* (the first typing frame for an existing conversation)
WsTypingOnce(c, cid, is_typing) ==
    /\ cid \in 1..Len(conversations) /\ bcast[cid].st = "none"
    /\ WsTyping(c, cid, is_typing)

InitTyping == InitServer /\ watch = {"typing"}

\* One conversation, every connection, and the first typing frame for it:
\* the fan-out of typing_indicator under connections opening and closing.
NextTyping ==
    \/ WsNext
    \/ FanoutNext
    \/ \E r \in Reqs, u \in Users, v \in Users : ConvFindAlone(r, u, v)
    \/ \E r \in Reqs : ConvInsert(r)
    \/ \E c \in Conns, cid \in 1..MaxReqs, is_typing \in BOOLEAN :
          WsTypingOnce(c, cid, is_typing)

SpecTyping == InitTyping /\ [][NextTyping]_vars

\* (one request at a time, while the connection has read what it was sent:
\* a rejected request can be sent again without end)
FrFindRoom(r, u, v) ==
    /\ \A c \in Conns : Len(inbox[c]) < MaxInbox
    /\ FrFindAlone(r, u, v)

InitReopen == InitServer /\ watch = {"reply"}

\* Friend requests and answers of two users, one request at a time, and one
\* connection.
NextReopen ==
    \/ \E c \in Conns, u \in Users : WsConnectOne(c, u)
    \/ \E c \in Conns : WsSetOnline(c)
    \/ \E t \in Tasks : FanoutBegin(t)
    \/ \E t \in Tasks : FanoutEndUser(t)
    \/ \E t \in Tasks : FanoutReturn(t)
    \/ \E r \in Reqs, u \in Users, v \in Users : FrFindRoom(r, u, v)
    \/ \E r \in Reqs : FrWrite(r)
    \/ \E r \in Reqs, u \in Users, i \in 1..MaxRecords, accept \in BOOLEAN :
          RrFindAlone(r, u, i, accept)
    \/ \E r \in Reqs : RrWrite(r)

SpecReopen == InitReopen /\ [][NextReopen]_vars

\* Friend requests one at a time and answers that may overlap, and one
\* connection.
NextRespond ==
    \/ \E c \in Conns, u \in Users : WsConnectOne(c, u)
    \/ \E c \in Conns : WsSetOnline(c)
    \/ \E t \in Tasks : FanoutBegin(t)
    \/ \E t \in Tasks : FanoutEndUser(t)
    \/ \E t \in Tasks : FanoutReturn(t)
    \/ \E r \in Reqs, u \in Users, v \in Users : FrFindRoom(r, u, v)
    \/ \E r \in Reqs : FrWrite(r)
    \/ \E r \in Reqs, u \in Users, i \in 1..MaxRecords, accept \in BOOLEAN :
          RrFind(r, u, i, accept)
    \/ \E r \in Reqs : RrWrite(r)

SpecRespond == InitReopen /\ [][NextRespond]_vars

\* ------------------------------------------------------------- claims
\* C1: a user_id is a key of active_connections if and only if the user's
\* connection set is not empty: no empty set is left in the map.
C1_NoEmptySetInRegistry ==
    \A u \in Users : (u \in DOMAIN active_connections) <=> (ConnSetOf(u) # {})

\* A user whose last connection was removed is no key, beside a user who is.
C1_Witness ==
    \E u \in Users, v \in Users :
        /\ offTransitions[u] > 0 /\ u \notin DOMAIN active_connections
        /\ v \in DOMAIN active_connections

\* C2: is_user_online(u) is true exactly when u has a connection that was
\* registered and has not been removed; after the removal of the last one it
\* is false.
C2_OnlineIffLiveConnection ==
    \A u \in Users :
        is_user_online(active_connections, u) <=> (\E c \in live : task[c].user = u)

\* A user's last connection was removed, and the user is not online.
C2_Witness ==
    \E u \in Users :
        offTransitions[u] > 0 /\ ~is_user_online(active_connections, u)

\* A user all of whose connection handlers have ended.
AllHandlersEnded(u) ==
    \A c \in Conns : task[c].user = u => task[c].pc = "closed"

\* C3: each time a user goes from having connections to having none, exactly
\* one round of user_offline notifications is generated: never two for one
\* transition, and never none once the user's handlers have ended.
C3_OneOfflineRoundPerTransition ==
    \A u \in Users :
        /\ offRounds[u] <= offTransitions[u]
        /\ AllHandlersEnded(u) => offRounds[u] = offTransitions[u]

\* The number of new_message events for message m written to connection c.
NewMessageCount(c, m) ==
    Cardinality({i \in 1..Len(inbox[c]) :
                    inbox[c][i].type = "new_message" /\ inbox[c][i].msg = m})

\* C4: a successful send_message pushes exactly one new_message event for
\* its message to every connection of the participants that is registered
\* during the broadcast: none of them gets it zero times or twice.
C4_ExactlyOneNewMessage ==
    \A m \in 1..MaxMsgs :
        bcast[m].st = "ok" => \A c \in bcast[m].stay : NewMessageCount(c, m) = 1

\* C5: when a send has failed during a fan-out, the iteration over the
\* recipient's connections ends with those connections removed from the
\* registry and the fan-out going on, never with an error that reaches the
\* request that triggered it.
C5_SendFailureIsRecovered ==
    [][\A t \in Reqs :
          (task[t].pc = "fanout" /\ task[t].iter /\ task[t].disc # {} /\ ~task'[t].iter)
          => /\ task'[t].pc = "fanout"
             /\ task[t].disc \cap Registered(active_connections') = {}]_vars

\* The new_message events in the inbox of connection c, as positions.
NewMessagesAt(c) == {i \in 1..Len(inbox[c]) : inbox[c][i].type = "new_message"}

\* C6: persist before broadcast: a new_message event that a connection has
\* received refers to a message that is in the persisted log of the
\* conversation it was sent to.
C6_PersistBeforeBroadcast ==
    \A c \in Conns : \A i \in NewMessagesAt(c) :
        /\ inbox[c][i].msg \in 1..Len(messages)
        /\ messages[inbox[c][i].msg].sender_id = inbox[c][i].user

C6_Witness ==
    \E c \in Conns : \E i \in NewMessagesAt(c) :
        inbox[c][i].msg = 2 /\ task[c].user # inbox[c][i].user

\* C7: two new_message events of one conversation reach a connection in the
\* order in which their messages were committed (message ids are positions
\* in the log, so the commit order is the order of the ids).
C7_DeliveryInCommitOrder ==
    \A c \in Conns : \A i \in NewMessagesAt(c), j \in NewMessagesAt(c) :
        (/\ i < j
         /\ inbox[c][i].msg \in 1..Len(messages) /\ inbox[c][j].msg \in 1..Len(messages)
         /\ messages[inbox[c][i].msg].conversation_id =
               messages[inbox[c][j].msg].conversation_id)
        => inbox[c][i].msg <= inbox[c][j].msg

\* C8: status.read_by of a message holds at most one entry for each user.
C8_ReadByOncePerUser ==
    \A m \in 1..Len(messages) : \A u \in Users :
        Cardinality({i \in 1..Len(messages[m].read_by) :
                        messages[m].read_by[i].user_id = u}) <= 1

\* C9: status.delivered_to of a message holds at most one entry for each
\* user.
C9_DeliveredToOncePerUser ==
    \A m \in 1..Len(messages) : \A u \in Users :
        Cardinality({i \in 1..Len(messages[m].delivered_to) :
                        messages[m].delivered_to[i].user_id = u}) <= 1

\* C10: get_messages returns no message that has deleted_for_everyone set.
C10_DeletedForEveryoneNotFetched ==
    \A i \in 1..Len(fetched.msgs) : ~fetched.msgs[i].is_deleted

\* C11: a delete-for-everyone goes on to its write only for the sender of
\* the message and within the window; the 403 and 400 responses of
\* delete_message leave every message as it was and start no broadcast.
C11_DeleteForEveryoneRejections ==
    [][/\ \A r \in Reqs :
             (task[r].pc = "idle" /\ task'[r].pc = "del_set")
             => /\ messages[task'[r].arg].sender_id = task'[r].user
                /\ now - messages[task'[r].arg].created_at <= DeleteWindow
       /\ \A u \in Users :
             (/\ reply'[u] # reply[u]
              /\ reply'[u].op = "delete_message" /\ reply'[u].code \in {400, 403})
             => messages' = messages /\ inbox' = inbox /\ task' = task]_vars

\* The sender was refused for the age of the message and the other
\* participant for not being the sender; the message is not deleted.
C11_Witness ==
    \E u \in Users, v \in Users :
        /\ reply[u].op = "delete_message" /\ reply[u].code = 400
        /\ reply[v].op = "delete_message" /\ reply[v].code = 403
        /\ reply[u].arg = reply[v].arg
        /\ ~messages[reply[u].arg].deleted_for_everyone

\* C12: there is at most one conversation record for a pair of two users,
\* and the create calls for the pair have returned the same conversation id.
C12_OneConversationPerPair ==
    /\ \A i \in 1..Len(conversations), j \in 1..Len(conversations) :
          (/\ conversations[i].participant_ids = conversations[j].participant_ids
           /\ conversations[i].participant_ids[1] # conversations[i].participant_ids[2])
          => i = j
    /\ \A u \in Users, v \in Users :
          (/\ reply[u].op = "create_conversation" /\ reply[v].op = "create_conversation"
           /\ u # UserSeq[reply[u].arg]
           /\ SortedPair(u, UserSeq[reply[u].arg]) = SortedPair(v, UserSeq[reply[v].arg]))
          => reply[u].val = reply[v].val

\* C13: send_message goes on to its insert only for a participant of the
\* conversation; its 403 response leaves the messages, the conversations
\* (last_message) and every inbox as they were and starts nothing.
C13_NonParticipantSendRejected ==
    [][/\ \A r \in Reqs :
             (task[r].pc = "idle" /\ task'[r].pc = "sm_insert")
             => task'[r].user \in SeqToSet(conversations[task'[r].arg].participant_ids)
       /\ \A u \in Users :
             (/\ reply'[u] # reply[u]
              /\ reply'[u].op = "send_message" /\ reply'[u].code = 403)
             => /\ u \notin SeqToSet(conversations[reply'[u].arg].participant_ids)
                /\ messages' = messages /\ conversations' = conversations
                /\ inbox' = inbox /\ task' = task]_vars

\* A user other than the participants was refused, and the conversation
\* has no message and no last_message.
C13_Witness ==
    \E u \in Users :
        /\ reply[u].op = "send_message" /\ reply[u].code = 403
        /\ u \notin SeqToSet(conversations[reply[u].arg].participant_ids)
        /\ messages = <<>>
        /\ conversations[reply[u].arg].last_message.message_id = 0

\* C14: a send_message request whose message is persisted is answered with
\* the success status.
C14_PersistedSendSucceeds ==
    \A u \in Users :
        (reply[u].op = "send_message" /\ reply[u].val \in 1..Len(messages))
        => reply[u].code = 201

\* The connections of user u that have received new_message for m, are
\* still registered and have a working transport.
LiveSince(u, m) ==
    {c \in ConnSetOf(u) : ~broken[c] /\ NewMessageCount(c, m) > 0}

StatusReadCount(c, m) ==
    Cardinality({i \in 1..Len(inbox[c]) :
                    inbox[c][i].type = "message_status_update/read" /\ inbox[c][i].msg = m})

\* C15: once the send of the only message m of a conversation has been
\* acknowledged, last_message is m and a recipient who has read nothing has
\* unread_count 1; once the recipient's mark_message_read of m has been
\* acknowledged, the recipient's unread_count is 0 and the sender's live
\* connections have received message_status_update (read) for m.
C15_SendThenRead ==
    /\ \A u \in Users :
          (/\ reply[u].op = "send_message" /\ reply[u].code = 201
           /\ Len(messages) = 1)
          => LET cid == reply[u].arg IN
             /\ conversations[cid].last_message.message_id = reply[u].val
             /\ \A v \in DOMAIN conversations[cid].last_read_at \ {u} :
                   conversations[cid].last_read_at[v] = -1 => unread_count(cid, v) = 1
    /\ \A v \in Users :
          (/\ reply[v].op = "mark_message_read" /\ reply[v].code = 200
           /\ Len(messages) = 1 /\ messages[1].sender_id # v
           /\ reply[messages[1].sender_id].op = "send_message"
           /\ reply[messages[1].sender_id].code = 201)
          => /\ unread_count(messages[1].conversation_id, v) = 0
             /\ \A c \in LiveSince(messages[1].sender_id, 1) : StatusReadCount(c, 1) > 0

\* The count the read path is to return for participant u of cid.
ClaimedUnread(cid, u) ==
    LET conv == conversations[cid]
        lr == conv.last_read_at[u] IN
    IF lr = -1 \/ (conv.last_message.message_id # 0 /\ conv.last_message.timestamp > lr)
    THEN Cardinality({m \in 1..Len(messages) :
                         /\ messages[m].conversation_id = cid
                         /\ messages[m].sender_id # u
                         /\ (lr = -1 \/ messages[m].created_at > lr)})
    ELSE 0

\* C16: every conversation read answers a participant with the number of
\* persisted messages of other senders newer than the participant's
\* last_read_at (all of them when it is unset) if last_message is newer than
\* last_read_at or last_read_at is unset, and with zero otherwise.
C16_UnreadCountFormula ==
    [][\A u \in Users :
          (/\ reply'[u] # reply[u]
           /\ reply'[u].op = "get_conversation" /\ reply'[u].code = 200)
          => reply'[u].val = ClaimedUnread(reply'[u].arg, u)]_vars

\* b has a block on a: a blocked record between them carries blocked_by = b.
BlockInPlace(b, a) ==
    \E i \in 1..Len(friendships) :
       /\ Between(i, a, b)
       /\ friendships[i].status = "blocked"
       /\ friendships[i].blocked_by = b

\* C17: when block_user answers b with 200 about a, a blocked record between
\* a and b exists; and while b's block on a is in place, every friend
\* request from a to b that arrives is answered 403 without going on to a
\* write, and changes no friendship record.
C17_BlockedRequestForbidden ==
    [][\A a \in Users : \A b \in Users \ {a} :
          /\ (reply'[b] # reply[b] /\ reply'[b] = Response("block_user", b, Rank(a), 200, 0))
                => BlockInPlace(b, a)'
          /\ BlockInPlace(b, a)
                => /\ \A r \in Reqs :
                         ~(/\ task[r].pc = "idle" /\ task'[r].pc = "fr_write"
                           /\ task'[r].user = a /\ task'[r].peer = b)
                   /\ (/\ task' = task /\ reply'[a] # reply[a]
                       /\ reply'[a].op = "friend_request" /\ reply'[a].arg = Rank(b))
                         => reply'[a].code = 403 /\ friendships' = friendships]_vars

\* C18: when b's last answered request is its block of a (200) and b has no
\* request in flight, whatever a has done since then, a blocked record
\* between a and b is there and no record of a request from a to b is pending.
C18_OnlyBlockerClears ==
    \A a \in Users : \A b \in Users \ {a} :
       (/\ reply[b] = Response("block_user", b, Rank(a), 200, 0)
        /\ \A r \in Reqs : task[r].user # b)
       => /\ \E i \in 1..Len(friendships) :
                Between(i, a, b) /\ friendships[i].status = "blocked"
          /\ ~\E i \in 1..Len(friendships) :
                /\ friendships[i].requester_id = a /\ friendships[i].addressee_id = b
                /\ friendships[i].status = "pending"

\* C19: no two friendship records are between the same two users.
C19_OneRecordPerPair ==
    \A i \in 1..Len(friendships), j \in 1..Len(friendships) :
       (/\ i # j
        /\ friendships[i].status # "deleted" /\ friendships[j].status # "deleted")
       => {friendships[i].requester_id, friendships[i].addressee_id}
             # {friendships[j].requester_id, friendships[j].addressee_id}

\* C20: a frame of unknown type leaves the registry as it is; its error
\* event is written to the connection that sent it whenever the transport
\* still works, and the handler is back at receive_json with the connection
\* registered.
C20_UnknownFrameAnswered ==
    [][\A c \in Conns :
          /\ (task[c].pc = "recv" /\ task'[c].pc = "reply_frame" /\ task'[c].ev.type = "error")
                => /\ active_connections' = active_connections
                   /\ connection_users' = connection_users
          /\ (task[c].pc = "reply_frame" /\ task[c].ev.type = "error" /\ task'[c] # task[c])
                => /\ task'[c].pc = "recv"
                   /\ active_connections' = active_connections
                   /\ connection_users' = connection_users
                   /\ ~broken[c]
                         => /\ inbox'[c] = Append(inbox[c], Event("error", 0, task[c].user))
                            /\ c \in ConnSetOf(task[c].user)']_vars

\* A registered connection has been answered an error and, later, a pong,
\* and is reading again.
C20_Witness ==
    \E c \in Conns :
       /\ task[c].pc = "recv" /\ ~broken[c]
       /\ c \in ConnSetOf(task[c].user)
       /\ \E i \in 1..Len(inbox[c]), j \in 1..Len(inbox[c]) :
             i < j /\ inbox[c][i].type = "error" /\ inbox[c][j].type = "pong"

\* The token does not pass validation, or carries no user_id.
AuthFails(tok) == tok # NoToken /\ (~tok.sig_ok \/ tok.user_id = NoUser)

\* C21: the step that handles a connection attempt with a failing token
\* closes it with the policy-violation code and changes neither the registry,
\* nor any user's persisted presence, nor any connection's events; and such
\* a connection never enters the registry, never runs the handler and never
\* starts a presence notification afterwards.
C21_BadTokenRejected ==
    [][\A c \in Conns :
          /\ (task[c].pc = "new" /\ task'[c].pc # "new" /\ AuthFails(task'[c].token))
                => /\ task'[c].pc = "closed"
                   /\ task'[c].snap = WS_1008_POLICY_VIOLATION
                   /\ active_connections' = active_connections
                   /\ connection_users' = connection_users
                   /\ users_online' = users_online
                   /\ inbox' = inbox
                   /\ offRounds' = offRounds
          /\ (task[c].pc # "new" /\ AuthFails(task[c].token))
                => /\ task'[c] = task[c]
                   /\ c \notin Registered(active_connections')
                   /\ c \notin DOMAIN connection_users'
                   /\ inbox'[c] = <<>>]_vars

\* Two attempts were refused, one for its signature and one for its missing
\* user_id, while an accepted connection is registered.
C21_Witness ==
    \E c \in Conns, d \in Conns, e \in Conns :
       /\ task[c].pc = "closed" /\ ~task[c].token.sig_ok /\ task[c].token.user_id \in Users
       /\ task[d].pc = "closed" /\ task[d].token.sig_ok /\ task[d].token.user_id = NoUser
       /\ e \in Registered(active_connections) /\ task[e].pc = "recv"

\* A friend request between u and v was accepted.
AcceptedFriends(u, v) ==
    \E i \in 1..Len(friendships) : Between(i, u, v) /\ friendships[i].status = "accepted"

\* The task has a fan-out of an event of this type about u under way, with
\* v among its recipients.
Notifies(tr, type, u, v) ==
    /\ tr.pc = "fanout"
    /\ tr.ev.type = type /\ tr.ev.user = u
    /\ v \in {tr.rcpts[i] : i \in 1..Len(tr.rcpts)}

\* C22: the step that persists status.online = true for a user starts a
\* user_online notification to every accepted friend who is online, and the
\* step that persists status.online = false starts a user_offline
\* notification to every accepted friend who is online.
C22_FriendsNotifiedOfPresence ==
    [][\A c \in Conns :
          /\ (task[c].pc = "set_online" /\ task'[c].pc # "set_online")
                => /\ users_online'[task[c].user]
                   /\ \A v \in Users \ {task[c].user} :
                         (AcceptedFriends(task[c].user, v) /\ is_user_online(active_connections, v))
                            => Notifies(task'[c], "user_online", task[c].user, v)
          /\ (task[c].pc = "fin_db" /\ task'[c].pc # "fin_db")
                => /\ ~users_online'[task[c].user]
                   /\ \A v \in Users \ {task[c].user} :
                         (AcceptedFriends(task[c].user, v) /\ is_user_online(active_connections, v))
                            => Notifies(task'[c], "user_offline", task[c].user, v)]_vars

\* C23: whatever becomes of the presence write, the handler goes on: after
\* the step of the online write it is in notify_contacts_status or in the
\* receive loop, after the step of the offline write it is in
\* notify_contacts_status or has returned; it is never ended by the
\* exception of the write.
C23_PresenceWriteFailureSwallowed ==
    [][\A c \in Conns :
          /\ (task[c].pc = "set_online" /\ task'[c].pc # "set_online")
                => task'[c].pc \in {"fanout", "recv"}
          /\ (task[c].pc = "fin_db" /\ task'[c].pc # "fin_db")
                => task'[c].pc \in {"fanout", "closed"}]_vars

\* C24: a registered connection whose channel is closed or whose handler
\* has stopped is eventually out of the registry.
C24_ClosedConnectionUnregistered ==
    \A c \in Conns :
       (c \in Registered(active_connections) /\ (broken[c] \/ task[c].pc \in {"raised", "closed"}))
          ~> (c \notin Registered(active_connections))

\* C25: no two coroutines are suspended in a send_json on the same
\* connection at the same time.
C25_SendsSerializedPerConnection ==
    \A t1 \in Tasks, t2 \in Tasks :
       (t1 # t2 /\ task[t1].sending # 0) => task[t1].sending # task[t2].sending

\* C26: a message_read frame leaves what mark_message_read leaves from the
\* same state: read_by gains the reader's entry only if it had none, the
\* sender is sent message_status_update only for a new entry of another
\* user, and the reader's last_read_at is set by the time the frame is done.
C26_ReadFrameAsMarkMessageRead ==
    [][\A c \in Conns :
         LET u == task[c].user IN
         /\ (task[c].pc = "recv" /\ task'[c].pc = "ack_find"
                /\ task'[c].op = "message_read")
            => LET m == task'[c].arg IN
               messages' = IF u \in ReceiptUsers(ReceiptList(m, "read")) THEN messages
                           ELSE PushReceipt(messages, m, "read", u)
         /\ (task[c].pc = "ack_find" /\ task[c].op = "message_read"
                /\ task[c].arg \in 1..Len(messages)
                /\ messages[task[c].arg].sender_id = u)
            => task'[c].ev = NoEvent
         /\ (task[c].op = "message_read" /\ task'[c].pc = "recv"
                /\ task[c].arg \in 1..Len(messages)
                /\ u \in DOMAIN conversations[messages[task[c].arg].conversation_id].last_read_at)
            => LET m == task[c].arg
                   cid == messages[m].conversation_id IN
               \A i \in 1..Len(messages[m].read_by) :
                   messages[m].read_by[i].user_id = u
                   => conversations'[cid].last_read_at[u] >= messages[m].read_by[i].at]_vars

\* The number of message_deleted events for message m written to connection c.
MessageDeletedCount(c, m) ==
    Cardinality({i \in 1..Len(inbox[c]) :
                    inbox[c][i].type = "message_deleted" /\ inbox[c][i].msg = m})

\* C27: a successful delete-for-everyone has written exactly one
\* message_deleted event for its message to every connection of the
\* participants that is registered during the broadcast, and a connection
\* holds that event only when the flag of the message is set.
C27_DeleteBroadcastOnceAfterPersist ==
    /\ \A m \in 1..MaxMsgs :
          bcast[m].st = "ok" => \A c \in bcast[m].stay : MessageDeletedCount(c, m) = 1
    /\ \A c \in Conns : \A i \in 1..Len(inbox[c]) :
          inbox[c][i].type = "message_deleted"
          => /\ inbox[c][i].msg \in 1..Len(messages)
             /\ messages[inbox[c][i].msg].deleted_for_everyone

\* C28: no step removes a stored message or moves it to another
\* conversation, and no step clears deleted_for_everyone once it is set: the
\* messages of a conversation never get fewer.
C28_DeletedFlagTerminalNoRemoval ==
    [][/\ Len(messages') >= Len(messages)
       /\ \A m \in 1..Len(messages) :
             /\ messages'[m].conversation_id = messages[m].conversation_id
             /\ messages'[m].sender_id = messages[m].sender_id
             /\ messages[m].deleted_for_everyone => messages'[m].deleted_for_everyone]_vars

\* A message deleted for everyone that has been read, delivered and deleted
\* for one user, and is still stored.
C28_Witness ==
    /\ \E m \in 1..Len(messages) :
          /\ messages[m].deleted_for_everyone
          /\ messages[m].read_by # <<>> /\ messages[m].delivered_to # <<>>
          /\ messages[m].deleted_for # <<>>

\* C29: the step of delete_message that deletes message m for user u changes
\* nothing but deleted_for of m, which then holds u exactly once; it writes
\* to no connection and starts no broadcast; from then on no page of
\* get_messages for u holds m, and the pages of every other user are the
\* ones they were before.
C29_DeleteForMeFrame ==
    [][\A r \in Reqs, u \in Users, m \in 1..MaxMsgs :
         (task[r].pc = "del_me" /\ task'[r].pc # "del_me"
             /\ task[r].user = u /\ task[r].arg = m)
         =>
            /\ messages' = [messages EXCEPT ![m].deleted_for =
                               IF u \in SeqToSet(@) THEN @ ELSE Append(@, u)]
            /\ Cardinality({i \in 1..Len(messages'[m].deleted_for) :
                               messages'[m].deleted_for[i] = u}) = 1
            /\ inbox' = inbox
            /\ task'[r] = IdleTask
            /\ \A cid \in 1..Len(conversations), limit \in 1..MaxMsgs,
                  before \in NoMsg..MaxMsgs, since \in NoTime..MaxTime :
                  /\ \A q \in (Pages(u, cid, limit, before, since))' :
                        m \notin {q[i] : i \in DOMAIN q}
                  /\ \A v \in Users \ {u} :
                        (Pages(v, cid, limit, before, since))' =
                           Pages(v, cid, limit, before, since)]_vars

\* The second user has deleted the message for themselves, and the page
\* that the first user has fetched holds it.
C29_Witness ==
    \E m \in 1..Len(messages) :
       /\ messages[m].deleted_for = <<UserSeq[2]>>
       /\ ~messages[m].deleted_for_everyone
       /\ fetched.by = UserSeq[1]
       /\ \E i \in 1..Len(fetched.msgs) : fetched.msgs[i].id = m

\* C30: every stored message that was sent as ephemeral with a time-to-live
\* has an expires_at, its creation time plus the time-to-live; and a page
\* returned by get_messages holds no message whose expires_at has passed.
C30_ExpiredMessagesNotFetched ==
    [][/\ \A m \in 1..Len(messages') :
             (messages'[m].metadata.is_ephemeral /\ messages'[m].metadata.ttl_seconds # 0)
             => messages'[m].metadata.expires_at =
                   messages'[m].created_at + messages'[m].metadata.ttl_seconds
       /\ fetched' # fetched
          => \A i \in 1..Len(fetched'.msgs) :
                LET e == messages[fetched'.msgs[i].id].metadata.expires_at IN
                e = NoExpiry \/ now <= e]_vars

\* The persisted messages of conversation cid that user u has not read:
\* those of other senders newer than u's last_read_at (all when it is unset).
PersistedUnread(cid, u) ==
    LET lr == conversations[cid].last_read_at[u] IN
    Cardinality({m \in 1..Len(messages) :
                    /\ messages[m].conversation_id = cid
                    /\ messages[m].sender_id # u
                    /\ (lr = -1 \/ messages[m].created_at > lr)})

\* C31: when no send is between its insert and its last_message update
\* (every send has finished or has stopped), a conversation read answers a
\* participant with the number of persisted unread messages, and a read of
\* the whole history returns every persisted message of the conversation.
C31_ReadsCorrectAfterPartialSend ==
    [][\A u \in Users :
          /\ (/\ reply'[u] # reply[u]
              /\ reply'[u].op = "get_conversation" /\ reply'[u].code = 200
              /\ \A r \in Reqs : task[r].pc # "sm_update")
             => reply'[u].val = PersistedUnread(reply'[u].arg, u)
          /\ (fetched' # fetched /\ fetched'.by = u)
             => \E cid \in 1..Len(conversations) :
                   {fetched'.msgs[i].id : i \in 1..Len(fetched'.msgs)} =
                      {m \in 1..Len(messages) : messages[m].conversation_id = cid}]_vars

\* The typing_indicator events for conversation cid written to connection c.
TypingCount(c, cid) ==
    Cardinality({i \in 1..Len(inbox[c]) :
                    /\ inbox[c][i].type \in {"typing_indicator/true", "typing_indicator/false"}
                    /\ inbox[c][i].msg = cid})

\* C32: when the handling of a typing frame has returned, every connection
\* of the other participants that was registered during the broadcast holds
\* exactly one typing_indicator event for the conversation; and no
\* connection ever holds a typing_indicator event of its own user.
C32_TypingReachesOthersOnly ==
    /\ \A cid \in DOMAIN bcast :
          bcast[cid].st = "ok" => \A c \in bcast[cid].stay : TypingCount(c, cid) = 1
    /\ \A c \in Conns : \A i \in 1..Len(inbox[c]) :
          inbox[c][i].type \in {"typing_indicator/true", "typing_indicator/false"}
          => inbox[c][i].user # task[c].user

\* C33: the write of a friend request from u to v over a rejected record
\* sets that record to pending and changes nothing else, so that no record
\* is added, and goes on to send friend_request_received for the record to
\* v, the other user of the record; and a friend_request_received event
\* never reaches a connection of the user who sent the request.
C33_RejectedEdgeReopened ==
    [][/\ \A r \in Reqs, i \in 1..MaxRecords :
             (/\ task[r].pc = "fr_write" /\ task'[r].pc # "fr_write"
              /\ task[r].arg = i /\ friendships[i].status = "rejected")
             => /\ friendships' = [friendships EXCEPT ![i].status = "pending"]
                /\ {task[r].user, task[r].peer} =
                      {friendships[i].requester_id, friendships[i].addressee_id}
                /\ task'[r].pc = "fanout"
                /\ task'[r].ev = Event("friend_request_received", i, task[r].user)
                /\ task'[r].rcpts = <<task[r].peer>>
       /\ \A c \in Conns : \A k \in 1..Len(inbox'[c]) :
             inbox'[c][k].type = "friend_request_received"
             => inbox'[c][k].user # task'[c].user]_vars

\* The second user has reopened the record of the first user's rejected
\* request: it is pending again, the second user was answered 201, and the
\* connection of the first user holds the event of the second.
C33_Witness ==
    /\ Len(friendships) = 1
    /\ friendships[1].requester_id = UserSeq[1] /\ friendships[1].status = "pending"
    /\ reply[UserSeq[2]].op = "friend_request" /\ reply[UserSeq[2]].code = 201
    /\ \E c \in Conns : \E k \in 1..Len(inbox[c]) :
          inbox[c][k] = Event("friend_request_received", 1, UserSeq[2])

\* C34: an answer to a friend request is written only by the addressee of
\* the record and only while the record is pending, so that its status
\* changes once; a respond call by anyone else is answered 403; and no
\* connection holds friend_request_accepted for a record that is rejected.
C34_RequestResolvedOnce ==
    [][/\ \A r \in Reqs, i \in 1..MaxRecords :
             (task[r].pc = "rr_write" /\ task'[r].pc # "rr_write" /\ task[r].arg = i)
             => /\ friendships[i].status = "pending"
                /\ friendships[i].addressee_id = task[r].user
       /\ \A u \in Users :
             (/\ reply'[u] # reply[u] /\ reply'[u].op = "respond"
              /\ reply'[u].arg \in 1..Len(friendships)
              /\ friendships[reply'[u].arg].status # "deleted"
              /\ friendships[reply'[u].arg].addressee_id # u)
             => reply'[u].code = 403
       /\ \A c \in Conns : \A k \in 1..Len(inbox'[c]) :
             inbox'[c][k].type = "friend_request_accepted"
             => friendships'[inbox'[c][k].msg].status # "rejected"]_vars

\* C35: a fan-out that is iterating over the connections of a user goes on
\* (to the next connection, or to the next recipient) whatever happens to
\* the registry meanwhile: no step ends it with an error; and when the
\* broadcast of a message is over, every connection of the participants
\* that was registered during the whole broadcast holds the event.
C35_FanoutSurvivesRegistryChange ==
    [][/\ \A t \in Tasks :
             (task[t].pc = "fanout" /\ task[t].iter) => task'[t].pc = "fanout"
       /\ \A m \in 1..MaxMsgs :
             bcast'[m].st \in {"ok", "failed"}
             => \A c \in bcast'[m].stay : (NewMessageCount(c, m))' >= 1]_vars

\* No handler of user u is in its connect path or in its finally block, and
\* none has a close to notice: each is in the receive loop of an open
\* channel or has ended.
HandlersAtRest(u) ==
    \A c \in Conns :
       task[c].user = u => (task[c].pc = "recv" /\ ~broken[c]) \/ task[c].pc = "closed"

\* C36: whenever the handlers of a user are at rest, the persisted
\* status.online of the user equals is_user_online.
C36_PersistedOnlineMatchesRegistry ==
    \A u \in Users :
       HandlersAtRest(u) => (users_online[u] <=> is_user_online(active_connections, u))

StatusUpdatesAbout(m, u) ==
    {<<c, i>> \in Conns \X (1..MaxInbox) :
        /\ i <= Len(inbox[c])
        /\ inbox[c][i].type \in {"message_status_update/read",
                                 "message_status_update/delivered"}
        /\ inbox[c][i].msg = m /\ inbox[c][i].user = u}

\* C38: a user who is no participant of a message's conversation has no
\* entry in the message's status.read_by, status.delivered_to or
\* deleted_for, and no message_status_update naming that user and the
\* message has been sent.
C38_OnlyParticipantsChangeMessageState ==
    \A m \in 1..Len(messages), u \in Users :
        u \notin SeqToSet(conversations[messages[m].conversation_id].participant_ids)
        => /\ u \notin ReceiptUsers(messages[m].read_by)
           /\ u \notin ReceiptUsers(messages[m].delivered_to)
           /\ u \notin SeqToSet(messages[m].deleted_for)
           /\ StatusUpdatesAbout(m, u) = {}

\* C39: whenever send_friend_request puts a friendship record into pending,
\* by inserting it or by reopening a rejected one, the caller is the
\* requester_id of that record, so that the addressee check of
\* respond_to_friend_request keeps the caller from accepting it.
C39_PendingRequesterIsCaller ==
    [][\A r \in Reqs, i \in 1..MaxRecords :
          (/\ task[r].pc = "fr_write" /\ task'[r].pc # "fr_write"
           /\ i <= Len(friendships')
           /\ friendships'[i].status = "pending"
           /\ (i > Len(friendships) \/ friendships[i].status # "pending"))
          => friendships'[i].requester_id = task[r].user]_vars

\* C40: in every reachable state a connection c is a member of
\* active_connections[u] if and only if connection_users[c] is u, and
\* registering a registered connection again for its user leaves both maps
\* as they are.
C40_RegistryMapsConsistent ==
    /\ \A c \in Conns, u \in Users :
          c \in ConnSetOf(u)
          <=> (c \in DOMAIN connection_users /\ connection_users[c] = u)
    /\ \A c \in DOMAIN connection_users : Register(Reg, c, connection_users[c]) = Reg

\* Two users have a registered connection each, beside a connection that
\* was registered and removed again.
C40_Witness ==
    \E u \in Users, v \in Users, c \in Conns, d \in Conns, e \in Conns :
        /\ u # v /\ c \in ConnSetOf(u) /\ d \in ConnSetOf(v)
        /\ connection_users[c] = u /\ connection_users[d] = v
        /\ task[e].pc = "closed" /\ task[e].user # NoUser
        /\ e \notin DOMAIN connection_users

====
